---- MODULE Spec2Model ----
(***************************************************************************)
(* Sparkling: the embedding context (ctx.c) and the run-time support       *)
(* library (rtlb.c), as state machines.                                    *)
(*                                                                         *)
(* Spec / FairSpec : the context facade, driven by an embedder that calls  *)
(*                   the load / exec / callfunc entry points and finally   *)
(*                   spn_ctx_free.                                         *)
(* NativeSpec      : the virtual machine calling one native callable of    *)
(*                   the standard library at a time; FairNativeSpec lets   *)
(*                   a call that is inside a loop go on.                   *)
(* IoSpec          : a script making one I/O call after the other.         *)
(***************************************************************************)
EXTENDS Integers, Sequences, FiniteSets, TLC

VARIABLES
    ctx,      \* struct SpnContext: bclist, errtype, errmsg
    parser,   \* SpnParser: errmsg
    cmp,      \* SpnCompiler: errmsg
    vm,       \* SpnVMachine: errmsg (the runtime error message)
    mem,      \* heap blocks handed out by malloc: bytecodes and list nodes
    log,      \* what the last entry point did, in order (ghost)
    returned, \* bytecode pointers returned by a successful load (ghost)
    last,     \* the last entry point called, its input and what it returned
    pc,       \* "live", "freeing" (inside free_bytecode_list), "dead"
    head,     \* free_bytecode_list: the local `head'
    ncall,    \* NativeSpec: the native callable called and its argv
    nret,     \* NativeSpec: the return slot *ret
    nstatus,  \* NativeSpec: the status the callable returned
    heap,     \* NativeSpec: reference counts of the array/hashmap objects
    nghost,   \* NativeSpec: what the callable did (ghost)
    files     \* IoSpec: the FILE objects of the C library, stdin first

ctxvars == <<ctx, parser, cmp, vm, mem, log, returned, last, pc, head>>
natvars == <<ncall, nret, nstatus, heap, nghost, files>>
vars == <<ctx, parser, cmp, vm, mem, log, returned, last, pc, head,
          ncall, nret, nstatus, heap, nghost, files>>

(***************************************************************************)
(* Bounds of the model.                                                    *)
(***************************************************************************)
\* longest program chain the embedder builds
MaxLoads == 2
\* largest object file, in bytes
MaxObjSize == 5
\* longest string handed to substr
MaxStrLen == 2

\* sizeof(spn_uword)
WordSize == 4

NULL == 0

(***************************************************************************)
(* Inputs.  A source text is known by what the parser, the compiler and    *)
(* the virtual machine make of it.                                         *)
(***************************************************************************)
Sources == {"ok", "rterr", "semerr", "synerr"}

\* a text file: missing/unreadable, or holding one of the sources
TextFiles == {"unreadable"} \cup Sources

\* an object file: unreadable, or `size' bytes of a program
ObjFiles == [readable : {FALSE}, size : {0}, prog : {"ok"}]
            \cup [readable : {TRUE}, size : 0..MaxObjSize, prog : {"ok", "rterr"}]

\* function values the embedder may hand to spn_ctx_callfunc
Funcs == {"fn_true", "fn_rterr"}

NoMsg == [owner |-> "none", about |-> "none"]

\* what a native call did, for the properties: the operands of the sum in
\* rtlb_aux_substr; the callback calls, comparisons, swaps and array reads in
\* order; whether the call ran into undefined behaviour; the arguments of the
\* call whose result it was given; the items of its array before the call
GhostInit ==
    [sumops |-> <<>>, steps |-> <<>>, ub |-> FALSE, prev |-> <<>>, before |-> <<>>,
     locals |-> <<>>]
Msg(owner, about) == [owner |-> owner, about |-> about]

\* stdin, stdout and stderr as the process starts with them: a FILE is open
\* or not; openedby and closedby name the library function that opened and
\* closed it
StdStreams ==
    [f \in 1..3 |-> [path |-> <<"stdin", "stdout", "stderr">>[f], open |-> TRUE,
                     openedby |-> "none", closedby |-> "none"]]

(***************************************************************************)
(* The world the entry points act on, as one record.                       *)
(***************************************************************************)
World == [ctx |-> ctx, parser |-> parser, cmp |-> cmp, vm |-> vm,
          mem |-> mem, log |-> log, returned |-> returned]

Note(w, ev) == [w EXCEPT !.log = Append(@, ev)]

\* malloc: a fresh block, never the address of a block handed out before
Alloc(w, what, prog) ==
    [w EXCEPT !.mem = Append(@, [what |-> what, prog |-> prog, frees |-> 0])]

(***************************************************************************)
(* External collaborators (parser.c, compiler.c, vm.c, the file helpers).  *)
(***************************************************************************)
ParserAccepts(str) == str # "synerr"

CompilerAccepts(ast) == ast # "semerr"

ProgLen(prog) == IF prog = "ok" THEN 2 ELSE 3

spn_parser_parse(w, str) ==
    IF ParserAccepts(str)
    THEN [w |-> Note(w, "parse_ok"), ast |-> str]
    ELSE [w |-> [Note(w, "parse_rej") EXCEPT !.parser.errmsg = Msg("parser", str)],
          ast |-> "NULL"]

spn_compiler_compile(w, ast) ==
    IF CompilerAccepts(ast)
    THEN LET w1 == Alloc(Note(w, "compile_ok"), "bc", ast)
         IN  [w |-> w1, bc |-> Len(w1.mem), len |-> ProgLen(ast)]
    ELSE [w |-> [Note(w, "compile_rej") EXCEPT !.cmp.errmsg = Msg("compiler", ast)],
          bc |-> NULL, len |-> 0]

spn_read_text_file(fname) == IF fname = "unreadable" THEN "NULL" ELSE fname

spn_read_binary_file(w, file) ==
    IF file.readable
    THEN LET w1 == Alloc(Note(w, "read_ok"), "bc", file.prog)
         IN  [w |-> w1, bc |-> Len(w1.mem), filesize |-> file.size]
    ELSE [w |-> Note(w, "read_fail"), bc |-> NULL, filesize |-> 0]

\* the status of running a program; a failing run leaves a runtime error message
VmRun(w, prog) ==
    IF prog \in {"rterr", "fn_rterr"}
    THEN [w |-> [Note(w, "vm_err") EXCEPT !.vm.errmsg = Msg("vm", prog)], status |-> -1]
    ELSE [w |-> Note(w, "vm_ok"), status |-> 0]

spn_vm_exec(w, bc) == VmRun(w, w.mem[bc].prog)

spn_vm_callfunc(w, func) == VmRun(w, func)

(***************************************************************************)
(* ctx.c                                                                   *)
(***************************************************************************)
spn_ctx_geterrtype(w) == w.ctx.errtype

spn_ctx_geterrmsg_swapped(w) ==
    CASE w.ctx.errtype = "OK"       -> NoMsg
      [] w.ctx.errtype = "SYNTAX"   -> w.cmp.errmsg
      [] w.ctx.errtype = "SEMANTIC" -> w.parser.errmsg
      [] w.ctx.errtype = "RUNTIME"  -> w.vm.errmsg
      [] w.ctx.errtype = "GENERIC"  -> w.ctx.errmsg
      [] OTHER                      -> NoMsg

spn_ctx_geterrmsg(w) ==
    CASE w.ctx.errtype = "OK"       -> NoMsg
      [] w.ctx.errtype = "SYNTAX"   -> w.parser.errmsg
      [] w.ctx.errtype = "SEMANTIC" -> w.cmp.errmsg
      [] w.ctx.errtype = "RUNTIME"  -> w.vm.errmsg
      [] w.ctx.errtype = "GENERIC"  -> w.ctx.errmsg
      [] OTHER                      -> NoMsg

prepend_bytecode_list_append(w, bc, len) ==
    LET w1 == Alloc(Note(w, "prepend"), "node", "-")
        node == [node |-> Len(w1.mem), bc |-> bc, len |-> len]
    IN  [w1 EXCEPT !.ctx.bclist = Append(@, node)]

prepend_bytecode_list(w, bc, len) ==
    LET w1 == Alloc(Note(w, "prepend"), "node", "-")
        node == [node |-> Len(w1.mem), bc |-> bc, len |-> len]
    IN  [w1 EXCEPT !.ctx.bclist = <<node>> \o @]

\* a successful load hands the bytecode pointer to its caller
Return(w, bc) ==
    [w |-> IF bc = NULL THEN w ELSE [w EXCEPT !.returned = @ \cup {bc}], ret |-> bc]

spn_ctx_loadstring_noreset(w, str) ==
    LET p == spn_parser_parse(w, str)
    IN  IF p.ast = "NULL"
        THEN Return([p.w EXCEPT !.ctx.errtype = "SYNTAX"], NULL)
        ELSE LET c == spn_compiler_compile(p.w, p.ast)
             IN  IF c.bc = NULL
                 THEN Return([c.w EXCEPT !.ctx.errtype = "SEMANTIC"], NULL)
                 ELSE Return(prepend_bytecode_list(c.w, c.bc, c.len), c.bc)

spn_ctx_loadstring_compilefirst(w, str) ==
    LET w0 == Note([w EXCEPT !.ctx.errtype = "OK"], "reset")
        c == spn_compiler_compile(w0, str)
        p == spn_parser_parse(c.w, str)
    IN  IF p.ast = "NULL"
        THEN Return([p.w EXCEPT !.ctx.errtype = "SYNTAX"], NULL)
        ELSE IF c.bc = NULL
             THEN Return([p.w EXCEPT !.ctx.errtype = "SEMANTIC"], NULL)
             ELSE Return(prepend_bytecode_list(p.w, c.bc, c.len), c.bc)

spn_ctx_loadstring(w, str) ==
    LET w0 == Note([w EXCEPT !.ctx.errtype = "OK"], "reset")
        p == spn_parser_parse(w0, str)
    IN  IF p.ast = "NULL"
        THEN Return([p.w EXCEPT !.ctx.errtype = "SYNTAX"], NULL)
        ELSE LET c == spn_compiler_compile(p.w, p.ast)
             IN  IF c.bc = NULL
                 THEN Return([c.w EXCEPT !.ctx.errtype = "SEMANTIC"], NULL)
                 ELSE Return(prepend_bytecode_list(c.w, c.bc, c.len), c.bc)

spn_ctx_loadsrcfile(w, fname) ==
    LET w0 == Note([w EXCEPT !.ctx.errtype = "OK"], "reset")
        src == spn_read_text_file(fname)
    IN  IF src = "NULL"
        THEN Return([Note(w0, "read_fail") EXCEPT
                        !.ctx.errtype = "GENERIC",
                        !.ctx.errmsg = Msg("ctx", "could not read source file")],
                    NULL)
        ELSE spn_ctx_loadstring(Note(w0, "read_ok"), src)

spn_ctx_loadobjfile_roundup(w, file) ==
    LET w0 == Note([w EXCEPT !.ctx.errtype = "OK"], "reset")
        r == spn_read_binary_file(w0, file)
    IN  IF r.bc = NULL
        THEN Return([r.w EXCEPT
                        !.ctx.errtype = "GENERIC",
                        !.ctx.errmsg = Msg("ctx", "could not read object file")],
                    NULL)
        ELSE LET nwords == (r.filesize + WordSize - 1) \div WordSize
             IN  Return(prepend_bytecode_list(r.w, r.bc, nwords), r.bc)

spn_ctx_loadobjfile(w, file) ==
    LET w0 == Note([w EXCEPT !.ctx.errtype = "OK"], "reset")
        r == spn_read_binary_file(w0, file)
    IN  IF r.bc = NULL
        THEN Return([r.w EXCEPT
                        !.ctx.errtype = "GENERIC",
                        !.ctx.errmsg = Msg("ctx", "could not read object file")],
                    NULL)
        ELSE LET nwords == r.filesize \div WordSize
             IN  Return(prepend_bytecode_list(r.w, r.bc, nwords), r.bc)

spn_ctx_execbytecode_noruntime(w, bc) ==
    LET w0 == Note([w EXCEPT !.ctx.errtype = "OK"], "reset")
        r == spn_vm_exec(w0, bc)
    IN  [w |-> r.w, ret |-> r.status]

\* NB: this does not add the bytecode to the linked list
spn_ctx_execbytecode(w, bc) ==
    LET w0 == Note([w EXCEPT !.ctx.errtype = "OK"], "reset")
        r == spn_vm_exec(w0, bc)
    IN  [w |-> IF r.status # 0 THEN [r.w EXCEPT !.ctx.errtype = "RUNTIME"] ELSE r.w,
         ret |-> r.status]

spn_ctx_execstring(w, str) ==
    LET l == spn_ctx_loadstring(w, str)
    IN  IF l.ret = NULL THEN [w |-> l.w, ret |-> -1]
        ELSE spn_ctx_execbytecode(l.w, l.ret)

spn_ctx_execsrcfile(w, fname) ==
    LET l == spn_ctx_loadsrcfile(w, fname)
    IN  IF l.ret = NULL THEN [w |-> l.w, ret |-> -1]
        ELSE spn_ctx_execbytecode(l.w, l.ret)

spn_ctx_execobjfile(w, file) ==
    LET l == spn_ctx_loadobjfile(w, file)
    IN  IF l.ret = NULL THEN [w |-> l.w, ret |-> -1]
        ELSE spn_ctx_execbytecode(l.w, l.ret)

spn_ctx_callfunc(w, func) ==
    LET w0 == Note([w EXCEPT !.ctx.errtype = "OK"], "reset")
        r == spn_vm_callfunc(w0, func)
    IN  [w |-> IF r.status # 0 THEN [r.w EXCEPT !.ctx.errtype = "RUNTIME"] ELSE r.w,
         ret |-> r.status]

\* one turn of the loop of free_bytecode_list: free(head->bc); free(head)
FreeBlocks(m, node) ==
    [m EXCEPT ![node.bc].frees = @ + 1, ![node.node].frees = @ + 1]

free_bytecode_list_leakbc(m, h) ==
    [mem |-> [m EXCEPT ![Head(h).node].frees = @ + 1], head |-> Tail(h)]

free_bytecode_list_step(m, h) == [mem |-> FreeBlocks(m, Head(h)), head |-> Tail(h)]

(***************************************************************************)
(* The embedder: one action per entry point of ctx.h.                      *)
(***************************************************************************)
Fresh == [World EXCEPT !.log = <<>>]

Commit(r, op, arg) ==
    /\ ctx' = r.w.ctx
    /\ parser' = r.w.parser
    /\ cmp' = r.w.cmp
    /\ vm' = r.w.vm
    /\ mem' = r.w.mem
    /\ log' = r.w.log
    /\ returned' = r.w.returned
    /\ last' = [op |-> op, arg |-> arg, ret |-> r.ret]
    /\ UNCHANGED <<pc, head>>
    /\ UNCHANGED natvars

CanLoad == pc = "live" /\ Len(ctx.bclist) < MaxLoads

LoadString(str) ==
    /\ CanLoad
    /\ Commit(spn_ctx_loadstring(Fresh, str), "loadstring", str)

LoadSrcFile(fname) ==
    /\ CanLoad
    /\ Commit(spn_ctx_loadsrcfile(Fresh, fname), "loadsrcfile", fname)

LoadObjFile(file) ==
    /\ CanLoad
    /\ Commit(spn_ctx_loadobjfile(Fresh, file), "loadobjfile", file)

ExecString(str) ==
    /\ CanLoad
    /\ Commit(spn_ctx_execstring(Fresh, str), "execstring", str)

ExecSrcFile(fname) ==
    /\ CanLoad
    /\ Commit(spn_ctx_execsrcfile(Fresh, fname), "execsrcfile", fname)

ExecObjFile(file) ==
    /\ CanLoad
    /\ Commit(spn_ctx_execobjfile(Fresh, file), "execobjfile", file)

ExecBytecode(bc) ==
    /\ pc = "live"
    /\ Commit(spn_ctx_execbytecode(Fresh, bc), "execbytecode", bc)

CallFunc(func) ==
    /\ pc = "live"
    /\ Commit(spn_ctx_callfunc(Fresh, func), "callfunc", func)

\* spn_ctx_free, up to the call of free_bytecode_list(ctx->bclist)
FreeBegin ==
    /\ pc = "live"
    /\ pc' = "freeing"
    /\ head' = ctx.bclist
    /\ log' = <<>>
    /\ last' = [op |-> "free", arg |-> NULL, ret |-> NULL]
    /\ UNCHANGED <<ctx, parser, cmp, vm, mem, returned>>
    /\ UNCHANGED natvars

\* while (head != NULL) { tmp = head->next; free(head->bc); free(head); head = tmp; }
FreeStep ==
    /\ pc = "freeing"
    /\ head # <<>>
    /\ LET r == free_bytecode_list_step(mem, head)
       IN  mem' = r.mem /\ head' = r.head
    /\ UNCHANGED <<ctx, parser, cmp, vm, log, returned, last, pc>>
    /\ UNCHANGED natvars

\* the loop is left, free(ctx)
FreeEnd ==
    /\ pc = "freeing"
    /\ head = <<>>
    /\ pc' = "dead"
    /\ UNCHANGED <<ctx, parser, cmp, vm, mem, log, returned, last, head>>
    /\ UNCHANGED natvars

\* spn_ctx_new
CtxInit ==
    /\ ctx = [bclist |-> <<>>, errtype |-> "OK", errmsg |-> NoMsg]
    /\ parser = [errmsg |-> NoMsg]
    /\ cmp = [errmsg |-> NoMsg]
    /\ vm = [errmsg |-> NoMsg]
    /\ mem = <<>>
    /\ log = <<>>
    /\ returned = {}
    /\ last = [op |-> "new", arg |-> NULL, ret |-> NULL]
    /\ pc = "live"
    /\ head = <<>>

NatIdle ==
    /\ ncall = [fn |-> "none", argv |-> <<>>]
    /\ nret = [type |-> "nil"]
    /\ nstatus = 0
    /\ heap = <<>>
    /\ nghost = GhostInit
    /\ files = StdStreams

Init == CtxInit /\ NatIdle

Next ==
    \/ \E str \in Sources : LoadString(str)
    \/ \E fname \in TextFiles : LoadSrcFile(fname)
    \/ \E file \in ObjFiles : LoadObjFile(file)
    \/ \E str \in Sources : ExecString(str)
    \/ \E fname \in TextFiles : ExecSrcFile(fname)
    \/ \E file \in ObjFiles : ExecObjFile(file)
    \/ \E bc \in returned : ExecBytecode(bc)
    \/ \E func \in Funcs : CallFunc(func)
    \/ FreeBegin
    \/ FreeStep
    \/ FreeEnd

Spec == Init /\ [][Next]_vars

\* straight-line C: once inside spn_ctx_free, the loop keeps running
FairSpec == Spec /\ WF_vars(FreeStep) /\ WF_vars(FreeEnd)

(***************************************************************************)
(* Properties of the context.                                              *)
(***************************************************************************)
Events(l) == {l[i] : i \in DOMAIN l}

BcsOf(list) == {list[i].bc : i \in DOMAIN list}

LoadOps == {"loadstring", "loadsrcfile", "loadobjfile"}

ExecOps == {"execstring", "execsrcfile", "execobjfile", "execbytecode"}

\* the step put exactly one node in front of the chain, holding bytecode bc
Prepended(bc) ==
    /\ ctx'.bclist # <<>>
    /\ Tail(ctx'.bclist) = ctx.bclist
    /\ Head(ctx'.bclist).bc = bc

OutcomeType(l) ==
    CASE "read_fail" \in Events(l)   -> "GENERIC"
      [] "parse_rej" \in Events(l)   -> "SYNTAX"
      [] "compile_rej" \in Events(l) -> "SEMANTIC"
      [] "vm_err" \in Events(l)      -> "RUNTIME"
      [] OTHER                       -> "OK"

\* C4: every load, exec and callfunc entry point resets the error type on
\* entry, so the type seen after a call depends on that call alone: Ok after
\* a success whatever failed before, Syntax after a loadstring of unparsable
\* source whatever succeeded before.
C4_ErrTypeOfLastCall ==
    (last.op \in LoadOps \cup ExecOps \cup {"callfunc"}) =>
        /\ log # <<>>
        /\ Head(log) = "reset"
        /\ spn_ctx_geterrtype(World) = OutcomeType(log)

C4_Witness ==
    /\ last.op = "loadstring"
    /\ last.arg = "synerr"
    /\ spn_ctx_geterrtype(World) = "SYNTAX"
    /\ vm.errmsg # NoMsg
    /\ returned # {}

\* C5: for the exec entry points and callfunc the status is non-zero exactly
\* when the error type is not Ok; the type is Runtime exactly when the VM ran
\* and returned non-zero; a failed load step returns -1 with the load's error
\* type and never runs the VM.
C5_StatusAndErrType ==
    (last.op \in ExecOps \cup {"callfunc"}) =>
        /\ (last.ret # 0) <=> (spn_ctx_geterrtype(World) # "OK")
        /\ (spn_ctx_geterrtype(World) = "RUNTIME") <=> ("vm_err" \in Events(log))
        /\ (Events(log) \cap {"read_fail", "parse_rej", "compile_rej"} # {}) =>
              /\ Events(log) \cap {"vm_ok", "vm_err"} = {}
              /\ last.ret = -1
              /\ spn_ctx_geterrtype(World) \in {"GENERIC", "SYNTAX", "SEMANTIC"}
              /\ spn_ctx_geterrtype(World) = OutcomeType(log)

C5_Witness ==
    /\ last.op = "execsrcfile"
    /\ last.arg = "rterr"
    /\ last.ret # 0
    /\ spn_ctx_geterrtype(World) = "RUNTIME"

\* C6: geterrmsg is NULL when the error type is Ok, and otherwise the message
\* of the component that owns the current category: the parser's for Syntax,
\* the compiler's for Semantic, the VM's for Runtime, the context's own for
\* Generic; never the message of another category.
C6_ErrMsgOwner ==
    LET m == spn_ctx_geterrmsg(World)
        t == spn_ctx_geterrtype(World)
    IN  /\ t = "OK" => m = NoMsg
        /\ t = "SYNTAX" => m.owner = "parser"
        /\ t = "SEMANTIC" => m.owner = "compiler"
        /\ t = "RUNTIME" => m.owner = "vm"
        /\ t = "GENERIC" => m.owner = "ctx"

C6_Witness ==
    /\ spn_ctx_geterrtype(World) = "SEMANTIC"
    /\ parser.errmsg # NoMsg
    /\ vm.errmsg # NoMsg
    /\ ctx.errmsg # NoMsg

\* C9: spn_ctx_free frees every node of the chain and its bytecode exactly
\* once, its loop terminates whatever the length of the chain, and nothing
\* of the chain is freed before spn_ctx_free.
C9_FreeOnce ==
    /\ [](/\ \A b \in DOMAIN mem : mem[b].frees <= 1
          /\ pc = "live" => \A b \in DOMAIN mem : mem[b].frees = 0
          /\ pc = "dead" =>
                \A i \in DOMAIN ctx.bclist :
                    /\ mem[ctx.bclist[i].bc].frees = 1
                    /\ mem[ctx.bclist[i].node].frees = 1)
    /\ (pc = "freeing") ~> (pc = "dead")

C9_Witness ==
    /\ pc = "dead"
    /\ Len(ctx.bclist) = 2
    /\ \A b \in DOMAIN mem : mem[b].frees = 1

(***************************************************************************)
(* Values (SpnValue) and the objects they refer to.                        *)
(***************************************************************************)
\* width of a C long in the model
LongBits == 8

LONG_MAX == 2 ^ (LongBits - 1) - 1

LONG_MIN == -(2 ^ (LongBits - 1))

\* signed arithmetic of that width
WrapLong(x) == ((x + 2 ^ (LongBits - 1)) % (2 ^ LongBits)) - 2 ^ (LongBits - 1)

spn_nilval == [type |-> "nil"]

makebool(b) == [type |-> "bool", b |-> b]

makeint(i) == [type |-> "int", i |-> i]

makestring(s) == [type |-> "string", s |-> s]

\* a double, counted in halves: the doubles the model uses are the multiples
\* of 0.5, which C adds and multiplies exactly
makefloat(h) == [type |-> "float", f |-> h]

objvalue(type, o) == [type |-> type, o |-> o]

funcval(f) == [type |-> "func", f |-> f]

isbool(v) == v.type = "bool"

isint(v) == v.type = "int"

isstring(v) == v.type = "string"

isarray(v) == v.type = "array"

isfunc(v) == v.type = "func"

isobject(v) == v.type \in {"array", "hashmap"}

Chars == {"a", "b"}

Strings == UNION {[1..k -> Chars] : k \in 0..MaxStrLen}

\* the arrays the script holds when it calls into the library
InitialHeap ==
    << [rc |-> 1, kind |-> "array", items |-> <<makeint(1), makeint(2)>>],
       [rc |-> 1, kind |-> "array", items |-> <<>>],
       [rc |-> 1, kind |-> "array", items |-> <<makeint(2)>>] >>

\* the array the script builds before it calls into the library
TheArray == objvalue("array", Len(InitialHeap) + 1)

\* functions a script may pass as callback
Callbacks == {"fn_true", "fn_false", "fn_isone", "fn_int", "fn_rterr"}

\* functions a script may pass as comparator: a < b of the language, which
\* fails on values that cannot be compared; the same, but failing, or
\* returning nil, when asked about 1 and 2; and functions that do not look
\* at their arguments
Comparators ==
    {"fn_less", "fn_less_fail12", "fn_less_nil12", "fn_true", "fn_false", "fn_int",
     "fn_rterr"}

\* functions that also remove the last element of the array the script
\* built: a < b, and one that returns true
Poppers == {"fn_less_pop", "fn_true_pop"}

\* functions a script may pass to foreach.  fn_each looks at the value it is
\* given: true for 1, nil for 2, false for 3, a runtime error for a string;
\* fn_each_int is the same but returns an integer for 3.
EachFuncs == {"fn_each", "fn_each_int"}

LessFuncs == {"fn_less", "fn_less_fail12", "fn_less_nil12", "fn_less_pop"}

IsOneAndTwo(args) == {args[1], args[2]} = {[type |-> "int", i |-> 1], [type |-> "int", i |-> 2]}

isnumber(v) == v.type \in {"int", "float"}

\* numbers compare with numbers, strings with strings
spn_values_comparable(x, y) ==
    \/ isnumber(x) /\ isnumber(y)
    \/ isstring(x) /\ isstring(y)

\* negative, zero or positive; strings compare byte by byte, "a" before "b"
spn_value_compare(x, y) ==
    IF isnumber(x) THEN x.i - y.i
    ELSE LET diff == {i \in 1..Len(x.s) : i > Len(y.s) \/ x.s[i] # y.s[i]}
             d == CHOOSE i \in diff : \A j \in diff : i <= j
         IN  IF diff = {} THEN Len(x.s) - Len(y.s)
             ELSE IF d > Len(y.s) THEN 1
             ELSE IF x.s[d] = "a" THEN -1 ELSE 1

\* the callee ends in a runtime error
CallbackFails(func, args) ==
    \/ func = "fn_rterr"
    \/ func \in LessFuncs /\ ~spn_values_comparable(args[1], args[2])
    \/ func = "fn_less_fail12" /\ IsOneAndTwo(args)
    \/ func \in EachFuncs /\ ~isint(args[1])

\* what a callback that does not fail does to the objects of the script
CallbackEffect(h, func) ==
    IF func \in Poppers /\ Len(h) >= TheArray.o /\ h[TheArray.o].items # <<>>
    THEN [h EXCEPT ![TheArray.o].items = SubSeq(@, 1, Len(@) - 1)]
    ELSE h

\* what a callback returns when it does not fail
CallbackValue(func, args) ==
    CASE func = "fn_true"  -> makebool(TRUE)
      [] func = "fn_false" -> makebool(FALSE)
      [] func = "fn_isone" -> makebool(Len(args) > 0 /\ args[1] = makeint(1))
      [] func = "fn_int"   -> makeint(7)
      [] func = "fn_true_pop" -> makebool(TRUE)
      [] func \in EachFuncs ->
            IF args[1].i = 1 THEN makebool(TRUE)
            ELSE IF args[1].i = 2 THEN spn_nilval
            ELSE IF func = "fn_each" THEN makebool(FALSE) ELSE makeint(7)
      [] func \in LessFuncs ->
            IF func = "fn_less_nil12" /\ IsOneAndTwo(args)
            THEN spn_nilval
            ELSE makebool(spn_value_compare(args[1], args[2]) < 0)
      [] OTHER             -> spn_nilval

\* the value a program run by require evaluates to
ProgValue(prog) == makeint(5)

\* the file a name stands for in the file system the script runs in
FileNamed(s) ==
    CASE s = <<"a">>      -> "ok"
      [] s = <<"b">>      -> "rterr"
      [] s = <<"a", "a">> -> "synerr"
      [] s = <<"a", "b">> -> "semerr"
      [] OTHER            -> "unreadable"

(***************************************************************************)
(* A native call acts on n = [w, heap, ret, ghost]: the context world, the  *)
(* object heap, the return slot and the ghost record.                      *)
(***************************************************************************)
Done(n, status) == [n |-> n, status |-> status]

SetRet(n, v) == [n EXCEPT !.ret = v]

\* F of v, with v worked out once, as a C local is assigned once and then read
Once(v, F(_)) == CHOOSE y \in {F(x) : x \in {v}} : TRUE

\* one thing a native call did, recorded in the ghost record
Step(n, op, args, status, value) ==
    [n EXCEPT !.ghost.steps =
        Append(@, [op |-> op, args |-> args, status |-> status, value |-> value])]

\* spn_ctx_runtime_error -> spn_vm_seterrmsg
spn_ctx_runtime_error(n, text) ==
    [n EXCEPT !.w = [Note(@, "seterrmsg") EXCEPT !.vm.errmsg = Msg("vm", text)]]

\* makearray(), makehashmap(): a new object holding one reference
NewObject(n, kind) ==
    LET h == Append(n.heap, [rc |-> 1, kind |-> kind, items |-> <<>>])
    IN  [[n EXCEPT !.heap = h] EXCEPT !.ret = objvalue(kind, Len(h))]

spn_value_retain(n, v) ==
    IF isobject(v) THEN [n EXCEPT !.heap[v.o].rc = @ + 1] ELSE n

spn_value_release(n, v) ==
    IF isobject(v)
    THEN Step([n EXCEPT !.heap[v.o].rc = @ - 1], "release", <<v.o, n.heap[v.o].rc - 1>>,
              0, spn_nilval)
    ELSE n

\* spn_array_pop: removes the last element and gives up the array's reference
spn_array_pop(n, a) ==
    LET items == n.heap[a].items
    IN  spn_value_release([n EXCEPT !.heap[a].items = SubSeq(items, 1, Len(items) - 1)],
                          items[Len(items)])

spn_array_push(n, o, v) == [n EXCEPT !.heap[o].items = Append(@, v)]

\* spn_hashmap_set: replaces the entry of an equal key, a nil value removes it
spn_hashmap_set(n, o, k, v) ==
    LET old == n.heap[o].items
        kept == SelectSeq(old, LAMBDA e : e.k # k)
    IN  [n EXCEPT !.heap[o].items =
            IF v = spn_nilval THEN kept ELSE Append(kept, [k |-> k, v |-> v])]

\* spn_ctx_callfunc as the library calls it, with the value the callee returned
CallBack(n, func, args) ==
    Once(spn_ctx_callfunc(n.w, IF CallbackFails(func, args) THEN "fn_rterr" ELSE func),
         LAMBDA r :
            LET value == IF r.ret = 0 THEN CallbackValue(func, args) ELSE spn_nilval
                h == IF r.ret = 0 THEN CallbackEffect(n.heap, func) ELSE n.heap
            IN  [n |-> Step([n EXCEPT !.w = r.w, !.heap = h], "call", args, r.ret, value),
                 status |-> r.ret, value |-> value])

(***************************************************************************)
(* rtlb.c: string library                                                  *)
(***************************************************************************)
rtlb_aux_substr_nolencheck(n, str, begin, length) ==
    LET slen == Len(str)
    IN  IF begin < 0 \/ begin > slen
        THEN Done(spn_ctx_runtime_error(n, "starting index is negative or too high"), -1)
        ELSE IF length < 0
        THEN Done(spn_ctx_runtime_error(n, "length is negative or too big"), -2)
        ELSE LET n1 == [n EXCEPT !.ghost.sumops = <<begin, length>>]
             IN  IF WrapLong(begin + length) > slen
                 THEN Done(spn_ctx_runtime_error(n1, "end of substring is out of bounds"), -3)
                 ELSE Done(SetRet(n1, makestring(SubSeq(str, begin + 1, begin + length))), 0)

\* main substring function, used by substr(), substrto() and substrfrom()
rtlb_aux_substr(n, str, begin, length) ==
    LET slen == Len(str)
    IN  IF begin < 0 \/ begin > slen
        THEN Done(spn_ctx_runtime_error(n, "starting index is negative or too high"), -1)
        ELSE IF length < 0 \/ length > slen
        THEN Done(spn_ctx_runtime_error(n, "length is negative or too big"), -2)
        ELSE LET n1 == [n EXCEPT !.ghost.sumops = <<begin, length>>]
             IN  IF WrapLong(begin + length) > slen
                 THEN Done(spn_ctx_runtime_error(n1, "end of substring is out of bounds"), -3)
                 ELSE Done(SetRet(n1, makestring(SubSeq(str, begin + 1, begin + length))), 0)

rtlb_substr(n, argv) ==
    IF Len(argv) # 3
    THEN Done(spn_ctx_runtime_error(n, "exactly three arguments are required"), -1)
    ELSE IF ~isstring(argv[1])
    THEN Done(spn_ctx_runtime_error(n, "first argument must be a string"), -2)
    ELSE IF ~isint(argv[2]) \/ ~isint(argv[3])
    THEN Done(spn_ctx_runtime_error(n, "second and third argument must be integers"), -2)
    ELSE rtlb_aux_substr(n, argv[1].s, argv[2].i, argv[3].i)

rtlb_substrto(n, argv) ==
    IF Len(argv) # 2
    THEN Done(spn_ctx_runtime_error(n, "exactly two arguments are required"), -1)
    ELSE IF ~isstring(argv[1])
    THEN Done(spn_ctx_runtime_error(n, "first argument must be a string"), -2)
    ELSE IF ~isint(argv[2])
    THEN Done(spn_ctx_runtime_error(n, "second argument must be an integer"), -2)
    ELSE rtlb_aux_substr(n, argv[1].s, 0, argv[2].i)

rtlb_substrfrom_shortlen(n, argv, undef) ==
    IF Len(argv) # 2
    THEN Done(spn_ctx_runtime_error(n, "exactly two arguments are required"), -1)
    ELSE IF ~isstring(argv[1])
    THEN Done(spn_ctx_runtime_error(n, "first argument must be a string"), -2)
    ELSE IF ~isint(argv[2])
    THEN Done(spn_ctx_runtime_error(n, "second argument must be an integer"), -2)
    ELSE LET slen == Len(argv[1].s)
             begin == argv[2].i
             length == slen - begin - 1
         IN  rtlb_aux_substr(n, argv[1].s, begin, length)

\* length = slen - begin is a signed subtraction: when it overflows the
\* length is any value, undef
rtlb_substrfrom(n, argv, undef) ==
    IF Len(argv) # 2
    THEN Done(spn_ctx_runtime_error(n, "exactly two arguments are required"), -1)
    ELSE IF ~isstring(argv[1])
    THEN Done(spn_ctx_runtime_error(n, "first argument must be a string"), -2)
    ELSE IF ~isint(argv[2])
    THEN Done(spn_ctx_runtime_error(n, "second argument must be an integer"), -2)
    ELSE LET slen == Len(argv[1].s)
             begin == argv[2].i
             length == IF slen - begin \in LONG_MIN..LONG_MAX
                       THEN slen - begin ELSE undef
         IN  rtlb_aux_substr(n, argv[1].s, begin, length)

\* A string object holds len bytes and a terminating NUL after them; bytes
\* read from a file may be NUL themselves (fread, readfile).
NUL == "nul"

Bytes == {"a", ",", NUL}

ByteStrings == UNION {[1..k -> Bytes] : k \in 0..MaxStrLen}

\* strlen of the buffer of str, read from offset off
strlen(str, off) ==
    LET nuls == {i \in (off + 1)..Len(str) : str[i] = NUL}
    IN  IF nuls = {} THEN Len(str) - off
        ELSE (CHOOSE i \in nuls : \A j \in nuls : i <= j) - 1 - off

\* strstr(haystack->cstr + off, needle->cstr): the offset in haystack of the
\* first occurrence of the C string needle in the C string at off, -1 for NULL
strstr(haystack, off, needle) ==
    LET hlen == strlen(haystack, off)
        nlen == strlen(needle, 0)
        hits == {i \in off..(off + hlen - nlen) :
                    SubSeq(haystack, i + 1, i + nlen) = SubSeq(needle, 1, nlen)}
    IN  IF hits = {} THEN -1 ELSE CHOOSE i \in hits : \A j \in hits : i <= j

rtlb_str_find(n, argv) ==
    IF Len(argv) \notin {2, 3}
    THEN Done(spn_ctx_runtime_error(n, "two or three arguments are required"), -1)
    ELSE IF ~isstring(argv[1]) \/ ~isstring(argv[2])
    THEN Done(spn_ctx_runtime_error(n, "first two arguments must be strings"), -2)
    ELSE IF Len(argv) = 3 /\ ~isint(argv[3])
    THEN Done(spn_ctx_runtime_error(n, "third argument must be an integer"), -3)
    ELSE LET haystack == argv[1].s
             needle == argv[2].s
             len == Len(haystack)
             off0 == IF Len(argv) = 3 THEN argv[3].i ELSE 0
             off == IF off0 < 0 THEN len + off0 ELSE off0
         IN  IF off < 0 \/ off > len
             THEN Done(spn_ctx_runtime_error(n, "normalized index out of bounds"), -4)
             ELSE Done(SetRet(n, makeint(strstr(haystack, off, needle))), 0)

\* the loop of rtlb_split with s and t as offsets into haystack (t = -1 for
\* NULL).  When s is moved beyond the terminating NUL, strstr reads outside
\* the buffer: the call is undefined from there on, and ends here with the
\* piece undef.
RECURSIVE rtlb_split_loop(_, _, _, _, _, _, _)
rtlb_split_loop(n, arr, haystack, needle, s, t, undef) ==
    LET p == IF t # -1 THEN t ELSE Len(haystack)
        n1 == spn_array_push(n, arr, makestring(SubSeq(haystack, s + 1, p)))
        s1 == t + Len(needle)
    IN  IF t = -1 THEN Done(n1, 0)
        ELSE IF s1 > Len(haystack)
        THEN Done(spn_array_push([n1 EXCEPT !.ghost.ub = TRUE], arr, makestring(undef)), 0)
        ELSE rtlb_split_loop(n1, arr, haystack, needle, s1,
                             strstr(haystack, s1, needle), undef)

rtlb_split(n, argv, undef) ==
    IF Len(argv) # 2
    THEN Done(spn_ctx_runtime_error(n, "exactly two arguments are required"), -1)
    ELSE IF ~isstring(argv[1]) \/ ~isstring(argv[2])
    THEN Done(spn_ctx_runtime_error(n, "arguments must be strings"), -2)
    ELSE IF Len(argv[2].s) = 0
    THEN Done(spn_ctx_runtime_error(n, "cannot split on empty string"), -3)
    ELSE LET n1 == NewObject(n, "array")
         IN  rtlb_split_loop(n1, n1.ret.o, argv[1].s, argv[2].s, 0,
                             strstr(argv[1].s, 0, argv[2].s), undef)

\* the buffer rtlb_join builds from the items from index i on
RECURSIVE rtlb_join_loop(_, _, _, _)
rtlb_join_loop(items, delim, i, buf) ==
    IF i > Len(items) THEN [ok |-> TRUE, buf |-> buf]
    ELSE IF ~isstring(items[i]) THEN [ok |-> FALSE, buf |-> <<>>]
    ELSE rtlb_join_loop(items, delim, i + 1,
                        IF i > 1 THEN buf \o delim \o items[i].s ELSE buf \o items[i].s)

rtlb_join(n, argv) ==
    IF Len(argv) # 2
    THEN Done(spn_ctx_runtime_error(n, "exactly two arguments are required"), -1)
    ELSE IF ~isarray(argv[1])
    THEN Done(spn_ctx_runtime_error(n, "first argument must be an array"), -2)
    ELSE IF ~isstring(argv[2])
    THEN Done(spn_ctx_runtime_error(n, "second argument must be a string"), -2)
    ELSE LET r == rtlb_join_loop(n.heap[argv[1].o].items, argv[2].s, 1, <<>>)
         IN  IF ~r.ok
             THEN Done(spn_ctx_runtime_error(n, "array must contain strings only"), -3)
             ELSE Done(SetRet(n, makestring(r.buf)), 0)

(***************************************************************************)
(* rtlb.c: sorting                                                         *)
(***************************************************************************)
\* comp of rtlb_sort when the script gave no comparator
NoFunc == "NULL"

\* spn_array_get: the element at index; a read at or beyond the count is
\* outside the contract of the getter and yields undef
spn_array_get(n, a, index, undef) ==
    LET items == n.heap[a].items
        n1 == Step(n, "read", <<index, Len(items)>>, 0, spn_nilval)
    IN  IF index < Len(items)
        THEN [n |-> n1, value |-> items[index + 1]]
        ELSE [n |-> [n1 EXCEPT !.ghost.ub = TRUE], value |-> undef]

\* spn_array_set: the array retains the value it is given and releases the
\* one it held; a write at or beyond the count is outside the contract of the
\* setter
spn_array_set(n, a, index, v) ==
    LET items == n.heap[a].items
    IN  IF index < Len(items)
        THEN spn_value_release(
                [spn_value_retain(n, v) EXCEPT !.heap[a].items[index + 1] = v],
                items[index + 1])
        ELSE [n EXCEPT !.ghost.ub = TRUE]

rtlb_aux_swap(n, a, i, j, undef) ==
    Once(spn_array_get(n, a, i, undef), LAMBDA x :
    Once(spn_array_get(x.n, a, j, undef), LAMBDA y :
        Step(spn_value_release(
                spn_array_set(spn_array_set(spn_value_retain(y.n, x.value), a, i, y.value),
                              a, j, x.value),
                x.value),
             "swap", <<i, j>>, 0, spn_nilval)))

\* the comparison of the i-th element to the pivot in rtlb_aux_partition
rtlb_aux_partition_compare(n, comp, ith_elem, pivot) ==
    IF comp # NoFunc
    THEN Once(CallBack(n, comp, <<ith_elem, pivot>>),
              LAMBDA r :
                IF r.status # 0
                THEN [n |-> r.n, error |-> 1, lessthan |-> FALSE]
                ELSE IF ~isbool(r.value)
                THEN [n |-> spn_ctx_runtime_error(
                                r.n, "comparator function must return a Boolean"),
                      error |-> 1, lessthan |-> FALSE]
                ELSE [n |-> r.n, error |-> 0, lessthan |-> r.value.b])
    ELSE IF ~spn_values_comparable(ith_elem, pivot)
         THEN [n |-> spn_ctx_runtime_error(
                        Step(n, "compare", <<ith_elem, pivot>>, 0, spn_nilval),
                        "attempt to sort uncomparable values"),
               error |-> 1, lessthan |-> FALSE]
         ELSE LET lessthan == spn_value_compare(ith_elem, pivot) < 0
              IN  [n |-> Step(n, "compare", <<ith_elem, pivot>>, 0, makebool(lessthan)),
                   error |-> 0, lessthan |-> lessthan]

RECURSIVE rtlb_aux_partition_loop(_, _, _, _, _, _, _, _)
rtlb_aux_partition_loop(n, a, right, comp, pivot, i, store_idx, undef) ==
    IF i >= right
    THEN [n |-> rtlb_aux_swap(n, a, store_idx, right, undef), error |-> 0,
          ret |-> store_idx]
    ELSE Once(spn_array_get(n, a, i, undef), LAMBDA ith_elem :
         Once(rtlb_aux_partition_compare(ith_elem.n, comp, ith_elem.value, pivot),
              LAMBDA c :
                IF c.error # 0 THEN [n |-> c.n, error |-> 1, ret |-> 0]
                ELSE IF c.lessthan
                THEN Once(rtlb_aux_swap(c.n, a, i, store_idx, undef),
                          LAMBDA n1 : rtlb_aux_partition_loop(n1, a, right, comp, pivot,
                                                              i + 1, store_idx + 1, undef))
                ELSE rtlb_aux_partition_loop(c.n, a, right, comp, pivot, i + 1, store_idx,
                                             undef)))

rtlb_aux_partition_noswap(n, a, left, right, comp, undef) ==
    LET pivot_idx == left + (right - left) \div 2
    IN  Once(spn_array_get(n, a, pivot_idx, undef), LAMBDA pivot :
            rtlb_aux_partition_loop(pivot.n, a, right, comp, pivot.value, left, left, undef))

rtlb_aux_partition(n, a, left, right, comp, undef) ==
    LET pivot_idx == left + (right - left) \div 2
    IN  Once(spn_array_get(n, a, pivot_idx, undef), LAMBDA pivot :
        Once(rtlb_aux_swap(pivot.n, a, pivot_idx, right, undef), LAMBDA n1 :
            rtlb_aux_partition_loop(n1, a, right, comp, pivot.value, left, left, undef)))

RECURSIVE rtlb_aux_qsort_goeson(_, _, _, _, _, _)
rtlb_aux_qsort_goeson(n, a, left, right, comp, undef) ==
    IF left >= right THEN Done(n, 0)
    ELSE Once(rtlb_aux_partition(n, a, left, right, comp, undef), LAMBDA p :
            IF p.error # 0 THEN Done(p.n, -1)
            ELSE Once(rtlb_aux_qsort_goeson(
                        Step(p.n, "partition", <<left, right, p.ret>>, 0, spn_nilval),
                        a, left, p.ret - 1, comp, undef), LAMBDA l :
                 Once(rtlb_aux_qsort_goeson(l.n, a, p.ret + 1, right, comp, undef),
                      LAMBDA r :
                        IF l.status # 0 \/ r.status # 0 THEN Done(r.n, -1)
                        ELSE Done(r.n, 0))))

\* the partition calls are recorded with the range and the index returned
RECURSIVE rtlb_aux_qsort(_, _, _, _, _, _)
rtlb_aux_qsort(n, a, left, right, comp, undef) ==
    IF left >= right THEN Done(n, 0)
    ELSE Once(rtlb_aux_partition(n, a, left, right, comp, undef), LAMBDA p :
            IF p.error # 0 THEN Done(p.n, -1)
            ELSE Once(rtlb_aux_qsort(
                        Step(p.n, "partition", <<left, right, p.ret>>, 0, spn_nilval),
                        a, left, p.ret - 1, comp, undef), LAMBDA l :
                    IF l.status # 0 THEN Done(l.n, -1)
                    ELSE Once(rtlb_aux_qsort(l.n, a, p.ret + 1, right, comp, undef),
                              LAMBDA r :
                                IF r.status # 0 THEN Done(r.n, -1) ELSE Done(r.n, 0))))

rtlb_sort(n, argv, undef) ==
    IF Len(argv) < 1 \/ Len(argv) > 2
    THEN Done(spn_ctx_runtime_error(n, "one or two arguments are required"), -1)
    ELSE IF ~isarray(argv[1])
    THEN Done(spn_ctx_runtime_error(n, "first argument must be an array"), -2)
    ELSE IF Len(argv) = 2 /\ ~isfunc(argv[2])
    THEN Done(spn_ctx_runtime_error(n, "second argument must be a comparator function"), -3)
    ELSE LET array == argv[1].o
             comparator == IF Len(argv) = 2 THEN argv[2].f ELSE NoFunc
         IN  rtlb_aux_qsort(n, array, 0, Len(n.heap[array].items) - 1, comparator, undef)

(***************************************************************************)
(* rtlb.c: binary search                                                   *)
(***************************************************************************)
\* > 0 if vals[0] < vals[1], 0 if not, < 0 on error
rtlb_aux_bsearch_compare(n, vals, predicate) ==
    IF predicate # NoFunc
    THEN Once(CallBack(n, predicate, vals),
              LAMBDA r :
                IF r.status # 0 THEN [n |-> r.n, ret |-> -1]
                ELSE IF ~isbool(r.value)
                THEN [n |-> spn_ctx_runtime_error(r.n, "predicate must return a Boolean"),
                      ret |-> -2]
                ELSE [n |-> r.n, ret |-> IF r.value.b THEN 1 ELSE 0])
    ELSE IF spn_values_comparable(vals[1], vals[2])
         THEN LET lessthan == spn_value_compare(vals[1], vals[2]) < 0
              IN  [n |-> Step(n, "compare", vals, 0, makebool(lessthan)),
                   ret |-> IF lessthan THEN 1 ELSE 0]
         ELSE [n |-> spn_ctx_runtime_error(Step(n, "compare", vals, 0, spn_nilval),
                                           "cannot compare values"),
               ret |-> -3]

RECURSIVE rtlb_aux_bsearch_upperonly(_, _, _, _, _, _, _)
rtlb_aux_bsearch_upperonly(n, arr, elem, lower, upper, predicate, undef) ==
    Once(Step(n, "assert", <<lower, upper>>, 0, spn_nilval), LAMBDA n0 :
    IF lower > upper THEN Done(n0, -1)
    ELSE IF lower = upper THEN Done(SetRet(n0, makeint(-1)), 0)
    ELSE LET middle == lower + (upper - lower) \div 2 IN
    Once(spn_array_get(n0, arr, middle, undef), LAMBDA g1 :
    Once(rtlb_aux_bsearch_compare(g1.n, <<elem, g1.value>>, predicate), LAMBDA is_smaller :
    IF is_smaller.ret < 0 THEN Done(is_smaller.n, -1)
    ELSE IF is_smaller.ret > 0
    THEN rtlb_aux_bsearch_upperonly(is_smaller.n, arr, elem, middle + 1, upper, predicate, undef)
    ELSE
    Once(spn_array_get(is_smaller.n, arr, middle, undef), LAMBDA g2 :
    Once(rtlb_aux_bsearch_compare(g2.n, <<g2.value, elem>>, predicate), LAMBDA is_greater :
    IF is_greater.ret < 0 THEN Done(is_greater.n, -1)
    ELSE IF is_greater.ret > 0
    THEN rtlb_aux_bsearch_upperonly(is_greater.n, arr, elem, middle + 1, upper, predicate, undef)
    ELSE Done(SetRet(is_greater.n, makeint(middle)), 0))))))

\* assert(lower <= upper) ends the process when it fails
RECURSIVE rtlb_aux_bsearch(_, _, _, _, _, _, _)
rtlb_aux_bsearch(n, arr, elem, lower, upper, predicate, undef) ==
    Once(Step(n, "assert", <<lower, upper>>, 0, spn_nilval), LAMBDA n0 :
    IF lower > upper THEN Done(n0, -1)
    ELSE IF lower = upper THEN Done(SetRet(n0, makeint(-1)), 0)
    ELSE LET middle == lower + (upper - lower) \div 2 IN
    Once(spn_array_get(n0, arr, middle, undef), LAMBDA g1 :
    Once(rtlb_aux_bsearch_compare(g1.n, <<elem, g1.value>>, predicate), LAMBDA is_smaller :
    IF is_smaller.ret < 0 THEN Done(is_smaller.n, -1)
    ELSE IF is_smaller.ret > 0
    THEN rtlb_aux_bsearch(is_smaller.n, arr, elem, lower, middle, predicate, undef)
    ELSE
    Once(spn_array_get(is_smaller.n, arr, middle, undef), LAMBDA g2 :
    Once(rtlb_aux_bsearch_compare(g2.n, <<g2.value, elem>>, predicate), LAMBDA is_greater :
    IF is_greater.ret < 0 THEN Done(is_greater.n, -1)
    ELSE IF is_greater.ret > 0
    THEN rtlb_aux_bsearch(is_greater.n, arr, elem, middle + 1, upper, predicate, undef)
    ELSE Done(SetRet(is_greater.n, makeint(middle)), 0))))))

rtlb_bsearch(n, argv, undef) ==
    IF Len(argv) < 2 \/ Len(argv) > 3
    THEN Done(spn_ctx_runtime_error(n, "expecting 2 or 3 arguments"), -1)
    ELSE IF ~isarray(argv[1])
    THEN Done(spn_ctx_runtime_error(n, "first argument must be an array"), -2)
    ELSE IF Len(argv) >= 3 /\ ~isfunc(argv[3])
    THEN Done(spn_ctx_runtime_error(n, "third argument must be a function"), -3)
    ELSE LET arr == argv[1].o
             predicate == IF Len(argv) >= 3 THEN argv[3].f ELSE NoFunc
         IN  rtlb_aux_bsearch(n, arr, argv[2], 0, Len(n.heap[arr].items), predicate, undef)

(***************************************************************************)
(* rtlb.c: array iteration and removal                                     *)
(***************************************************************************)
\* the loop of rtlb_array_foreach; count is n, read before the loop
RECURSIVE rtlb_array_foreach_loop(_, _, _, _, _, _)
rtlb_array_foreach_loop(n, arr, predicate, i, count, undef) ==
    IF i >= count THEN Done(n, 0)
    ELSE Once(spn_array_get(n, arr, i, undef), LAMBDA g :
         Once(CallBack(g.n, predicate, <<g.value, makeint(i)>>), LAMBDA r :
            IF r.status # 0 THEN Done(r.n, -4)
            ELSE IF isbool(r.value)
            THEN IF ~r.value.b THEN Done(r.n, 0)
                 ELSE rtlb_array_foreach_loop(r.n, arr, predicate, i + 1, count, undef)
            ELSE IF r.value # spn_nilval
            THEN Done(spn_ctx_runtime_error(
                        r.n, "callback function must return boolean or nil"), -5)
            ELSE rtlb_array_foreach_loop(r.n, arr, predicate, i + 1, count, undef)))

rtlb_array_foreach(n, argv, undef) ==
    IF Len(argv) # 2
    THEN Done(spn_ctx_runtime_error(n, "two arguments are required"), -1)
    ELSE IF ~isarray(argv[1])
    THEN Done(spn_ctx_runtime_error(n, "first argument must be an array"), -2)
    ELSE IF ~isfunc(argv[2])
    THEN Done(spn_ctx_runtime_error(n, "second argument must be a function"), -3)
    ELSE rtlb_array_foreach_loop(n, argv[1].o, argv[2].f, 0,
                                 Len(n.heap[argv[1].o].items), undef)

\* the loop of rtlb_array_map; count is n, read before the loop
RECURSIVE rtlb_array_map_loop(_, _, _, _, _, _, _)
rtlb_array_map_loop(n, orig, mapped, predicate, i, count, undef) ==
    IF i >= count THEN Done(SetRet(n, objvalue("array", mapped)), 0)
    ELSE Once(spn_array_get(n, orig, i, undef), LAMBDA g :
         Once(CallBack(g.n, predicate, <<g.value, makeint(i)>>), LAMBDA r :
            IF r.status # 0
            THEN Done(spn_value_release(r.n, objvalue("array", mapped)), -4)
            ELSE rtlb_array_map_loop(
                    spn_value_release(spn_array_push(r.n, mapped, r.value), r.value),
                    orig, mapped, predicate, i + 1, count, undef)))

rtlb_array_map(n, argv, undef) ==
    IF Len(argv) # 2
    THEN Done(spn_ctx_runtime_error(n, "expecting two arguments"), -1)
    ELSE IF ~isarray(argv[1])
    THEN Done(spn_ctx_runtime_error(n, "first argument must be an array"), -2)
    ELSE IF ~isfunc(argv[2])
    THEN Done(spn_ctx_runtime_error(n, "second argument must be a function"), -3)
    ELSE Once(NewObject(n, "array"), LAMBDA m :
            rtlb_array_map_loop(SetRet(m, spn_nilval), argv[1].o, m.ret.o, argv[2].f, 0,
                                Len(m.heap[argv[1].o].items), undef))

\* tmp_a is not retained before the two sets
rtlb_swap_noretain(n, argv, undef) ==
    IF Len(argv) # 3
    THEN Done(spn_ctx_runtime_error(n, "expecting 3 arguments"), -1)
    ELSE IF ~isarray(argv[1])
    THEN Done(spn_ctx_runtime_error(n, "first argument must be an array"), -2)
    ELSE IF ~isint(argv[2]) \/ ~isint(argv[3])
    THEN Done(spn_ctx_runtime_error(n, "second and third arguments must be integers"), -2)
    ELSE LET arr == argv[1].o
             idx_a == argv[2].i
             idx_b == argv[3].i
             count == Len(n.heap[arr].items)
         IN  IF idx_a < 0 \/ idx_a >= count \/ idx_b < 0 \/ idx_b >= count
             THEN Done(spn_ctx_runtime_error(n, "index is out of bounds for array"), -3)
             ELSE Once(spn_array_get(n, arr, idx_a, undef), LAMBDA tmp_a :
                  Once(spn_array_get(tmp_a.n, arr, idx_b, undef), LAMBDA tmp_b :
                    Done(spn_value_release(
                            spn_array_set(
                                spn_array_set(tmp_b.n, arr, idx_a, tmp_b.value),
                                arr, idx_b, tmp_a.value),
                            tmp_a.value), 0)))

rtlb_swap(n, argv, undef) ==
    IF Len(argv) # 3
    THEN Done(spn_ctx_runtime_error(n, "expecting 3 arguments"), -1)
    ELSE IF ~isarray(argv[1])
    THEN Done(spn_ctx_runtime_error(n, "first argument must be an array"), -2)
    ELSE IF ~isint(argv[2]) \/ ~isint(argv[3])
    THEN Done(spn_ctx_runtime_error(n, "second and third arguments must be integers"), -2)
    ELSE LET arr == argv[1].o
             idx_a == argv[2].i
             idx_b == argv[3].i
             count == Len(n.heap[arr].items)
         IN  IF idx_a < 0 \/ idx_a >= count \/ idx_b < 0 \/ idx_b >= count
             THEN Done(spn_ctx_runtime_error(n, "index is out of bounds for array"), -3)
             ELSE Once(spn_array_get(n, arr, idx_a, undef), LAMBDA tmp_a :
                  Once(spn_array_get(tmp_a.n, arr, idx_b, undef), LAMBDA tmp_b :
                    Done(spn_value_release(
                            spn_array_set(
                                spn_array_set(spn_value_retain(tmp_b.n, tmp_a.value),
                                              arr, idx_a, tmp_b.value),
                                arr, idx_b, tmp_a.value),
                            tmp_a.value), 0)))

rtlb_pop_noretain(n, argv, undef) ==
    IF Len(argv) # 1
    THEN Done(spn_ctx_runtime_error(n, "expecting one argument"), -1)
    ELSE IF ~isarray(argv[1])
    THEN Done(spn_ctx_runtime_error(n, "argument must be an array"), -2)
    ELSE LET arr == argv[1].o
             count == Len(n.heap[arr].items)
         IN  IF count = 0
             THEN Done(spn_ctx_runtime_error(n, "cannot pop() empty array"), -3)
             ELSE Once(spn_array_get(n, arr, count - 1, undef), LAMBDA g :
                    Done(spn_array_pop(SetRet(g.n, g.value), arr), 0))

rtlb_pop(n, argv, undef) ==
    IF Len(argv) # 1
    THEN Done(spn_ctx_runtime_error(n, "expecting one argument"), -1)
    ELSE IF ~isarray(argv[1])
    THEN Done(spn_ctx_runtime_error(n, "argument must be an array"), -2)
    ELSE LET arr == argv[1].o
             count == Len(n.heap[arr].items)
         IN  IF count = 0
             THEN Done(spn_ctx_runtime_error(n, "cannot pop() empty array"), -3)
             ELSE Once(spn_array_get(n, arr, count - 1, undef), LAMBDA g :
                    Done(spn_array_pop(spn_value_retain(SetRet(g.n, g.value), g.value),
                                       arr), 0))

(***************************************************************************)
(* rtlb.c: hashmap library.  The entries of a map are kept in the order    *)
(* the cursor visits them; a cursor is the number of entries visited.      *)
(***************************************************************************)
ishashmap(v) == v.type = "hashmap"

\* spn_hashmap_next: the entry after the cursor and the cursor after it, 0
\* at the end.  `seen' is the table as it was when the cursor was handed
\* out: after a mutation the cursor is invalid, and the call either ends the
\* iteration or (undef) goes on in the changed table.
spn_hashmap_next(n, hm, cursor, seen, undef) ==
    LET items == n.heap[hm].items
        valid == items = seen
        m == IF valid THEN n ELSE [n EXCEPT !.ghost.ub = TRUE]
    IN  IF cursor < Len(items) /\ (valid \/ undef)
        THEN [n |-> Step(m, "next", <<cursor, valid>>, 0, items[cursor + 1].k),
              cursor |-> cursor + 1, key |-> items[cursor + 1].k,
              val |-> items[cursor + 1].v]
        ELSE [n |-> Step(m, "next", <<cursor, valid>>, 0, spn_nilval),
              cursor |-> 0, key |-> spn_nilval, val |-> spn_nilval]

RECURSIVE rtlb_hashmap_foreach_loop(_, _, _, _, _, _)
rtlb_hashmap_foreach_loop(n, hm, callback, cursor, seen, undef) ==
    Once(spn_hashmap_next(n, hm, cursor, seen, undef), LAMBDA c :
        IF c.cursor = 0 THEN Done(c.n, 0)
        ELSE Once(CallBack(c.n, callback, <<c.val, c.key>>), LAMBDA r :
            IF r.status # 0 THEN Done(r.n, -4)
            ELSE rtlb_hashmap_foreach_loop(r.n, hm, callback, c.cursor,
                                           c.n.heap[hm].items, undef)))

rtlb_hashmap_foreach(n, argv, undef) ==
    IF Len(argv) # 2
    THEN Done(spn_ctx_runtime_error(n, "expecting two arguments"), -1)
    ELSE IF ~ishashmap(argv[1])
    THEN Done(spn_ctx_runtime_error(n, "first argument must be a hashmap"), -2)
    ELSE IF ~isfunc(argv[2])
    THEN Done(spn_ctx_runtime_error(n, "second argument must be a function"), -3)
    ELSE rtlb_hashmap_foreach_loop(n, argv[1].o, argv[2].f, 0,
                                   n.heap[argv[1].o].items, undef)

RECURSIVE rtlb_hashmap_map_loop(_, _, _, _, _, _, _)
rtlb_hashmap_map_loop(n, hm, result, transform, cursor, seen, undef) ==
    Once(spn_hashmap_next(n, hm, cursor, seen, undef), LAMBDA c :
        IF c.cursor = 0 THEN Done(SetRet(c.n, objvalue("hashmap", result)), 0)
        ELSE Once(CallBack(c.n, transform, <<c.val, c.key>>), LAMBDA r :
            IF r.status # 0
            THEN Done(spn_value_release(r.n, objvalue("hashmap", result)), -4)
            ELSE rtlb_hashmap_map_loop(
                    spn_value_release(spn_hashmap_set(r.n, result, c.key, r.value), r.value),
                    hm, result, transform, c.cursor, c.n.heap[hm].items, undef)))

rtlb_hashmap_map(n, argv, undef) ==
    IF Len(argv) # 2
    THEN Done(spn_ctx_runtime_error(n, "expecting two arguments"), -1)
    ELSE IF ~ishashmap(argv[1])
    THEN Done(spn_ctx_runtime_error(n, "first argument must be a hashmap"), -2)
    ELSE IF ~isfunc(argv[2])
    THEN Done(spn_ctx_runtime_error(n, "second argument must be a function"), -3)
    ELSE Once(NewObject(n, "hashmap"), LAMBDA m :
            rtlb_hashmap_map_loop(SetRet(m, spn_nilval), argv[1].o, m.ret.o, argv[2].f, 0,
                                  m.heap[argv[1].o].items, undef))

RECURSIVE rtlb_hashmap_filter_loop(_, _, _, _, _, _, _)
rtlb_hashmap_filter_loop(n, hm, result, predicate, cursor, seen, undef) ==
    Once(spn_hashmap_next(n, hm, cursor, seen, undef), LAMBDA c :
        IF c.cursor = 0 THEN Done(SetRet(c.n, objvalue("hashmap", result)), 0)
        ELSE Once(CallBack(c.n, predicate, <<c.val, c.key>>), LAMBDA r :
            IF r.status # 0
            THEN Done(spn_value_release(r.n, objvalue("hashmap", result)), -4)
            ELSE IF ~isbool(r.value)
            THEN Done(spn_ctx_runtime_error(
                        spn_value_release(
                            spn_value_release(r.n, objvalue("hashmap", result)), r.value),
                        "predicate must return a Boolean"), -5)
            ELSE rtlb_hashmap_filter_loop(
                    IF r.value.b THEN spn_hashmap_set(r.n, result, c.key, c.val) ELSE r.n,
                    hm, result, predicate, c.cursor, c.n.heap[hm].items, undef)))

rtlb_hashmap_filter(n, argv, undef) ==
    IF Len(argv) # 2
    THEN Done(spn_ctx_runtime_error(n, "expecting two arguments"), -1)
    ELSE IF ~ishashmap(argv[1])
    THEN Done(spn_ctx_runtime_error(n, "first argument must be a hashmap"), -2)
    ELSE IF ~isfunc(argv[2])
    THEN Done(spn_ctx_runtime_error(n, "second argument must be a function"), -3)
    ELSE Once(NewObject(n, "hashmap"), LAMBDA m :
            rtlb_hashmap_filter_loop(SetRet(m, spn_nilval), argv[1].o, m.ret.o, argv[2].f,
                                     0, m.heap[argv[1].o].items, undef))

(***************************************************************************)
(* rtlb.c: loading the standard library.  spn_load_stdlib is a straight    *)
(* line of calls; it is listed as StdlibProgram and run one call at a time *)
(* on n, whose heap holds the class table of the virtual machine as its    *)
(* first object.  The locals of the run, in n.ghost.locals, are the index  *)
(* of the next call and the C variables that hold a value.                 *)
(***************************************************************************)
\* spn_vm_getclasses
Classes == objvalue("hashmap", 1)

TypeTags == {"SPN_TTAG_STRING", "SPN_TTAG_ARRAY", "SPN_TTAG_HASHMAP", "SPN_TTAG_FUNC"}

\* the tables M[] of the libraries: method name and native function
StdlibMethods ==
    [SPN_TTAG_STRING |->
        << <<"find", "rtlb_str_find">>, <<"substr", "rtlb_substr">>,
           <<"substrto", "rtlb_substrto">>, <<"substrfrom", "rtlb_substrfrom">>,
           <<"split", "rtlb_split">>, <<"repeat", "rtlb_repeat">>,
           <<"tolower", "rtlb_tolower">>, <<"toupper", "rtlb_toupper">>,
           <<"format", "rtlb_format">> >>,
     SPN_TTAG_ARRAY |->
        << <<"sort", "rtlb_sort">>, <<"find", "rtlb_arr_find">>, <<"pfind", "rtlb_pfind">>,
           <<"bsearch", "rtlb_bsearch">>, <<"any", "rtlb_any">>, <<"all", "rtlb_all">>,
           <<"slice", "rtlb_slice">>, <<"join", "rtlb_join">>,
           <<"foreach", "rtlb_array_foreach">>, <<"reduce", "rtlb_reduce">>,
           <<"filter", "rtlb_array_filter">>, <<"map", "rtlb_array_map">>,
           <<"insert", "rtlb_insert">>, <<"inject", "rtlb_inject">>,
           <<"erase", "rtlb_erase">>, <<"concat", "rtlb_concat">>, <<"push", "rtlb_push">>,
           <<"pop", "rtlb_pop">>, <<"last", "rtlb_last">>, <<"swap", "rtlb_swap">>,
           <<"reverse", "rtlb_reverse">> >>,
     SPN_TTAG_HASHMAP |->
        << <<"foreach", "rtlb_hashmap_foreach">>, <<"map", "rtlb_hashmap_map">>,
           <<"filter", "rtlb_hashmap_filter">>, <<"keys", "rtlb_keys">>,
           <<"values", "rtlb_values">> >>,
     SPN_TTAG_FUNC |-> << <<"call", "rtlb_call">> >>]

makenativefunc(name, fn) == [type |-> "func", name |-> name, f |-> fn]

\* spn_hashmap_get: nil when there is no such key
spn_hashmap_get(n, o, k) ==
    LET found == SelectSeq(n.heap[o].items, LAMBDA e : e.k = k)
    IN  IF found = <<>> THEN spn_nilval ELSE found[1].v

\* spn_hashmap_set as the owner of its values: the map retains the value it
\* is given and releases the one it held under the key
spn_hashmap_set_owning(n, o, k, v) ==
    LET old == spn_hashmap_get(n, o, k)
    IN  spn_value_release(spn_hashmap_set(spn_value_retain(n, v), o, k, v), old)

\* the class of the load_methods call gets every method: the type tag is
\* not looked at
get_class_for_typetag_anytag(n, typetag) ==
    LET classval == spn_hashmap_get(n, Classes.o, makeint("SPN_TTAG_STRING"))
    IN  [n |-> Step(n, "assert", <<typetag>>, 0, makebool(ishashmap(classval))),
         classval |-> classval]

\* get_class_for_typetag, with what its assertion saw
get_class_for_typetag(n, typetag) ==
    LET classval == spn_hashmap_get(n, Classes.o, makeint(typetag))
    IN  [n |-> Step(n, "assert", <<typetag>>, 0, makebool(ishashmap(classval))),
         classval |-> classval]

\* the calls of load_methods: the class lookup, then one set per method
load_methods(typetag) ==
    << [op |-> "get_class_for_typetag", typetag |-> typetag] >>
    \o [i \in 1..Len(StdlibMethods[typetag]) |->
            [op |-> "spn_hashmap_set_strkey", name |-> StdlibMethods[typetag][i][1],
             fn |-> StdlibMethods[typetag][i][2]]]

\* the calls of init_stdlib_classes
init_stdlib_classes ==
    LET classvars == <<"stringclass", "arrayclass", "hashmapclass", "funcclass">>
        tags == <<"SPN_TTAG_STRING", "SPN_TTAG_ARRAY", "SPN_TTAG_HASHMAP", "SPN_TTAG_FUNC">>
    IN  [i \in 1..4 |-> [op |-> "makehashmap", var |-> classvars[i]]]
        \o [i \in 1..4 |-> [op |-> "spn_hashmap_set", typetag |-> tags[i],
                              var |-> classvars[i]]]
        \o [i \in 1..4 |-> [op |-> "spn_value_release", var |-> classvars[i]]]

addlib(kind, lib) == << [op |-> kind, lib |-> lib] >>

\* the calls of spn_load_stdlib, in order
StdlibProgram ==
    init_stdlib_classes
    \o addlib("spn_vm_addlib_cfuncs", "io") \o addlib("spn_vm_addlib_values", "io")
    \o load_methods("SPN_TTAG_STRING")
    \o load_methods("SPN_TTAG_ARRAY")
    \o addlib("spn_vm_addlib_cfuncs", "hashmap") \o load_methods("SPN_TTAG_HASHMAP")
    \o addlib("spn_vm_addlib_cfuncs", "math") \o addlib("spn_vm_addlib_values", "math")
    \o addlib("spn_vm_addlib_cfuncs", "sysutil") \o addlib("spn_vm_addlib_values", "sysutil")
    \o load_methods("SPN_TTAG_FUNC")

\* one call of spn_load_stdlib, which returns after the last one; a failed
\* assertion aborts the process
spn_load_stdlib_step(n, call) ==
    LET i == n.ghost.locals[1]
        cvars == n.ghost.locals[2]
        goon(m, v) == [m EXCEPT !.ghost.locals =
                            IF i < Len(StdlibProgram) THEN <<i + 1, v>> ELSE <<>>]
    IN  CASE call.op = "makehashmap" ->
                LET m == NewObject(n, "hashmap")
                IN  goon(SetRet(m, spn_nilval), (call.var :> m.ret) @@ cvars)
          [] call.op = "spn_hashmap_set" ->
                goon(spn_hashmap_set_owning(n, Classes.o, makeint(call.typetag),
                                            cvars[call.var]), cvars)
          [] call.op = "spn_value_release" ->
                goon(spn_value_release(n, cvars[call.var]), cvars)
          [] call.op = "get_class_for_typetag" ->
                LET c == get_class_for_typetag(n, call.typetag)
                IN  IF ishashmap(c.classval)
                    THEN goon(c.n, ("classdesc" :> c.classval) @@ cvars)
                    ELSE [Step(c.n, "abort", <<>>, 0, spn_nilval) EXCEPT !.ghost.locals = <<>>]
          [] call.op = "spn_hashmap_set_strkey" ->
                goon(spn_hashmap_set(n, cvars["classdesc"].o, makestring(call.name),
                                     makenativefunc(call.name, call.fn)), cvars)
          [] OTHER ->
                goon(Step(n, call.op, <<call.lib>>, 0, spn_nilval), cvars)

(***************************************************************************)
(* rtlb.c: I/O library.  A file handle is a weak user info value holding   *)
(* the FILE pointer, here the index of the FILE in files; the call acts on *)
(* n with the FILE objects in n.files.                                     *)
(***************************************************************************)
\* most FILE objects the C library hands out, the standard streams included
MaxFiles == 5

makeweakuserinfo(p) == [type |-> "weakuserinfo", p |-> p]

isweakuserinfo(v) == v.type = "weakuserinfo"

\* the files on disk, by name: one with a NUL byte inside, an empty one and
\* one of a single byte; no other name exists
FileSystem ==
    (<<"a">> :> <<"a", NUL, ",">>) @@ (<<"b">> :> <<>>) @@ (<<"a", "b">> :> <<"a">>)

\* fopen of the C library for reading: NULL (0) when there is no such file
\* or no FILE left
fopen(fs, fname, by) ==
    IF fname \in DOMAIN FileSystem /\ Len(fs) < MaxFiles
    THEN [files |-> Append(fs, [path |-> fname, open |-> TRUE, openedby |-> by,
                               closedby |-> "none"]),
          fp |-> Len(fs) + 1]
    ELSE [files |-> fs, fp |-> NULL]

\* fread of the C library: the number of whole items read, none when the
\* item size is zero
fread(size, nmemb, available) ==
    IF size = 0 THEN 0
    ELSE IF available \div size < nmemb THEN available \div size ELSE nmemb

\* fclose of the C library, called by `by'; closing a FILE that is closed
\* already is undefined
fclose(n, fp, by) ==
    IF n.files[fp].open
    THEN [n EXCEPT !.files[fp] = [@ EXCEPT !.open = FALSE, !.closedby = by]]
    ELSE [n EXCEPT !.ghost.ub = TRUE]

rtlb_fopen(n, argv) ==
    IF Len(argv) # 2
    THEN Done(spn_ctx_runtime_error(n, "exactly two arguments are required"), -1)
    ELSE IF ~isstring(argv[1]) \/ ~isstring(argv[2])
    THEN Done(spn_ctx_runtime_error(n, "filename and mode must be strings"), -2)
    ELSE LET r == fopen(n.files, argv[1].s, "rtlb_fopen")
         IN  IF r.fp # NULL
             THEN Done(SetRet([n EXCEPT !.files = r.files], makeweakuserinfo(r.fp)), 0)
             ELSE Done(n, 0)

\* tmpfile of the C library gives NULL when no FILE is left
rtlb_tmpfile(n) ==
    IF Len(n.files) < MaxFiles
    THEN Done(SetRet([n EXCEPT !.files =
                        Append(@, [path |-> <<>>, open |-> TRUE,
                                   openedby |-> "rtlb_tmpfile", closedby |-> "none"])],
                     makeweakuserinfo(Len(n.files) + 1)), 0)
    ELSE Done(n, 0)

rtlb_fclose(n, argv) ==
    IF Len(argv) # 1
    THEN Done(spn_ctx_runtime_error(n, "exactly one argument is required"), -1)
    ELSE IF ~isweakuserinfo(argv[1])
    THEN Done(spn_ctx_runtime_error(n, "argument must be a file handle"), -2)
    ELSE Done(fclose(n, argv[1].p, "rtlb_fclose"), 0)

\* fflush of a closed FILE is undefined: it answers undef
rtlb_fflush(n, argv, undef) ==
    IF Len(argv) # 1
    THEN Done(spn_ctx_runtime_error(n, "expecting one argument"), -1)
    ELSE IF ~isweakuserinfo(argv[1])
    THEN Done(spn_ctx_runtime_error(n, "argument must be an output file handle"), -2)
    ELSE IF n.files[argv[1].p].open
    THEN Done(SetRet(n, makebool(TRUE)), 0)
    ELSE Done(SetRet([n EXCEPT !.ghost.ub = TRUE], makebool(undef)), 0)

\* the FILE that readfile opens is gone again when it returns
rtlb_readfile(n, argv) ==
    IF Len(argv) # 1
    THEN Done(spn_ctx_runtime_error(n, "exactly one argument is required"), -1)
    ELSE IF ~isstring(argv[1])
    THEN Done(spn_ctx_runtime_error(n, "argument must be a string (filename)"), -2)
    ELSE LET r == fopen(n.files, argv[1].s, "rtlb_readfile")
             f == [n EXCEPT !.files = r.files]
             gone(m) == [m EXCEPT !.files = SubSeq(@, 1, r.fp - 1)]
         IN  IF r.fp = NULL
             THEN Done(spn_ctx_runtime_error(n, "can't open file"), -3)
             ELSE LET buf == FileSystem[argv[1].s]
                      size == Len(buf)
                  IN  IF fread(size, 1, Len(buf)) # 1
                      THEN Done(gone(fclose(spn_ctx_runtime_error(f, "can't read file"),
                                            r.fp, "rtlb_readfile")), -4)
                      ELSE Done(gone(fclose(SetRet(f, makestring(buf)), r.fp,
                                            "rtlb_readfile")), 0)

(***************************************************************************)
(* rtlb.c: range.  The call is taken one loop test at a time: the locals   *)
(* <<i, range>> of the running call are in the ghost record, and the call  *)
(* has returned when they are gone.                                        *)
(***************************************************************************)
\* longest array range builds before memory runs out
MaxRangeLen == 5

isfloat(v) == v.type = "float"

\* FLOATVAL, in halves
FLOATVAL(f) == IF isint(f) THEN 2 * f.i ELSE f.f

\* rtlb_range up to the first test of its loop
rtlb_range(n, argv) ==
    LET argc == Len(argv)
        enter(i) == LET m == NewObject(n, "array")
                    IN  Done([SetRet(m, spn_nilval) EXCEPT !.ghost.locals = <<i, m.ret.o>>], 0)
    IN  IF argc < 1 \/ argc > 3
        THEN Done(spn_ctx_runtime_error(n, "expecting 1, 2 or 3 arguments"), -1)
        ELSE IF \E i \in 1..argc : ~isnumber(argv[i])
        THEN Done(spn_ctx_runtime_error(n, "arguments must be numbers"), -2)
        ELSE IF argc = 1
        THEN IF ~isint(argv[1])
             THEN Done(spn_ctx_runtime_error(n, "argument must be an integer"), -3)
             ELSE enter(0)
        ELSE IF argc = 2
        THEN IF ~isint(argv[1]) \/ ~isint(argv[2])
             THEN Done(spn_ctx_runtime_error(n, "arguments must be integers"), -3)
             ELSE enter(argv[1].i)
        ELSE enter(0)

\* one test of the loop of rtlb_range: the body and the increment when it
\* holds, the way out of the switch and the return when it does not
rtlb_range_step(n, argv) ==
    LET argc == Len(argv)
        i == n.ghost.locals[1]
        range == n.ghost.locals[2]
        x == FLOATVAL(argv[1]) + FLOATVAL(argv[3]) * i
        goes == IF argc = 1 THEN i < argv[1].i
                ELSE IF argc = 2 THEN i < argv[2].i
                ELSE x <= FLOATVAL(argv[2])
        v == IF argc = 3 THEN makefloat(x) ELSE makeint(i)
    IN  IF goes
        THEN [spn_array_push(n, range, v) EXCEPT !.ghost.locals = <<i + 1, range>>]
        ELSE [SetRet(n, objvalue("array", range)) EXCEPT !.ghost.locals = <<>>]

(***************************************************************************)
(* rtlb.c: array and hashmap library                                       *)
(***************************************************************************)
RECURSIVE rtlb_aux_anyall_loop(_, _, _, _, _, _)
rtlb_aux_anyall_loop(n, items, predicate, any, i, count) ==
    IF i >= count THEN Done(n, 0)
    ELSE LET keyval == <<items[i + 1], makeint(i)>>
             c == CallBack(n, predicate, keyval)
         IN  IF c.status # 0 THEN Done(c.n, -4)
             ELSE IF ~isbool(c.value)
             THEN Done(spn_ctx_runtime_error(c.n, "predicate must return a Boolean"), -5)
             ELSE IF any /\ c.value.b THEN Done(SetRet(c.n, makebool(TRUE)), 0)
             ELSE IF ~any /\ ~c.value.b THEN Done(SetRet(c.n, makebool(FALSE)), 0)
             ELSE rtlb_aux_anyall_loop(c.n, items, predicate, any, i + 1, count)

rtlb_aux_anyall(n, argv, any) ==
    IF Len(argv) # 2
    THEN Done(spn_ctx_runtime_error(n, "expecting two arguments"), -1)
    ELSE IF ~isarray(argv[1])
    THEN Done(spn_ctx_runtime_error(n, "first argument must be an array"), -2)
    ELSE IF ~isfunc(argv[2])
    THEN Done(spn_ctx_runtime_error(n, "second argument must be a function"), -3)
    ELSE LET items == n.heap[argv[1].o].items
             n1 == SetRet(n, IF any THEN makebool(FALSE) ELSE makebool(TRUE))
         IN  rtlb_aux_anyall_loop(n1, items, argv[2].f, any, 0, Len(items))

rtlb_any(n, argv) == rtlb_aux_anyall(n, argv, TRUE)

rtlb_all(n, argv) == rtlb_aux_anyall(n, argv, FALSE)

RECURSIVE PushAll(_, _, _, _)
PushAll(n, result, items, j) ==
    IF j > Len(items) THEN n
    ELSE PushAll(spn_array_push(n, result, items[j]), result, items, j + 1)

RECURSIVE rtlb_concat_loop(_, _, _)
rtlb_concat_loop(n, argv, i) ==
    IF i > Len(argv) THEN Done(n, 0)
    ELSE IF ~isarray(argv[i])
    THEN LET n1 == spn_ctx_runtime_error(n, "arguments must be arrays (arg %i was %s)")
         IN  Done(spn_value_release(n1, n1.ret), -1)
    ELSE rtlb_concat_loop(PushAll(n, n.ret.o, n.heap[argv[i].o].items, 1), argv, i + 1)

rtlb_concat(n, argv) == rtlb_concat_loop(NewObject(n, "array"), argv, 1)

RECURSIVE rtlb_combine_loop(_, _, _, _)
rtlb_combine_loop(n, keys, vals, i) ==
    IF i > Len(keys) THEN Done(n, 0)
    ELSE rtlb_combine_loop(spn_hashmap_set(n, n.ret.o, keys[i], vals[i]), keys, vals, i + 1)

rtlb_combine(n, argv) ==
    IF Len(argv) # 2
    THEN Done(spn_ctx_runtime_error(n, "expecting two arguments"), -1)
    ELSE IF ~isarray(argv[1]) \/ ~isarray(argv[2])
    THEN Done(spn_ctx_runtime_error(n, "arguments must be arrays"), -2)
    ELSE LET n1 == NewObject(n, "hashmap")
             keys == n.heap[argv[1].o].items
             vals == n.heap[argv[2].o].items
         IN  IF Len(vals) # Len(keys)
             THEN Done(spn_ctx_runtime_error(n1, "there must be exactly as many values as keys"), -3)
             ELSE rtlb_combine_loop(n1, keys, vals, 1)

(***************************************************************************)
(* rtlb.c: sysutil library                                                 *)
(***************************************************************************)
rtlb_require(n, argv) ==
    IF Len(argv) # 1
    THEN Done(spn_ctx_runtime_error(n, "exactly one argument is required"), -1)
    ELSE IF ~isstring(argv[1])
    THEN Done(spn_ctx_runtime_error(n, "argument must be a string (a filename)"), -2)
    ELSE LET fname == FileNamed(argv[1].s)
             r == spn_ctx_execsrcfile(n.w, fname)
             n1 == [n EXCEPT !.w = r.w]
         IN  Done(IF r.ret = 0 THEN SetRet(n1, ProgValue(fname)) ELSE n1, r.ret)

rtlb_call(n, argv) ==
    IF Len(argv) # 2
    THEN Done(spn_ctx_runtime_error(n, "expecting 2 arguments"), -1)
    ELSE IF ~isfunc(argv[1])
    THEN Done(spn_ctx_runtime_error(n, "first argument must be a function"), -2)
    ELSE IF ~isarray(argv[2])
    THEN Done(spn_ctx_runtime_error(n, "second argument must be an array"), -3)
    ELSE LET c == CallBack(n, argv[1].f, n.heap[argv[2].o].items)
         IN  Done(IF c.status = 0 THEN SetRet(c.n, c.value) ELSE c.n, c.status)

(***************************************************************************)
(* rtlb.c: compiling at run time, and a program that calls the library     *)
(***************************************************************************)
\* the source text a string of the script holds; any other text does not parse
SourceText(s) ==
    CASE s = <<"a">>      -> "ok"
      [] s = <<"b">>      -> "rterr"
      [] s = <<"a", "b">> -> "semerr"
      [] OTHER            -> "synerr"

\* resets the category to Ok; the messages stay where they are
spn_ctx_clearerror(w) == [w EXCEPT !.ctx.errtype = "OK"]

\* compiles an expression to a function with an implicit return: parsed and
\* compiled as loadstring does it, with the same two ways to fail
spn_ctx_compile_expr(w, str) == spn_ctx_loadstring(w, str)

\* the tail of rtlb_compile and rtlb_exprtofn: l is what the context returned
rtlb_compile_result(n, l, src) ==
    IF l.ret = NULL
    THEN Done(SetRet([n EXCEPT !.w = spn_ctx_clearerror(l.w)],
                     makestring(spn_ctx_geterrmsg(l.w))), 0)
    ELSE Done(SetRet([n EXCEPT !.w = l.w], funcval(src)), 0)

rtlb_compile(n, argv) ==
    IF Len(argv) # 1
    THEN Done(spn_ctx_runtime_error(n, "exactly one argument is required"), -1)
    ELSE IF ~isstring(argv[1])
    THEN Done(spn_ctx_runtime_error(n, "argument must be a string"), -2)
    ELSE LET src == SourceText(argv[1].s)
         IN  rtlb_compile_result(n, spn_ctx_loadstring(n.w, src), src)

rtlb_exprtofn(n, argv) ==
    IF Len(argv) # 1
    THEN Done(spn_ctx_runtime_error(n, "requiring exactly one argument"), -1)
    ELSE IF ~isstring(argv[1])
    THEN Done(spn_ctx_runtime_error(n, "argument must be a string"), -2)
    ELSE LET src == SourceText(argv[1].s)
         IN  rtlb_compile_result(n, spn_ctx_compile_expr(n.w, src), src)

\* spn_vm_exec of a program that calls one library function and returns its
\* value: a callable that returns non-zero ends the run, which has no handler,
\* with that status
spn_vm_exec_call(n, fn, argv) ==
    CASE fn = "require"  -> rtlb_require(n, argv)
      [] fn = "compile"  -> rtlb_compile(n, argv)
      [] fn = "exprtofn" -> rtlb_exprtofn(n, argv)
      [] fn = "call"     -> rtlb_call(n, argv)
      [] fn = "foreach"  -> rtlb_array_foreach(n, argv, spn_nilval)
      [] fn = "sort"     -> rtlb_sort(n, argv, spn_nilval)

\* the category is left as the run left it
spn_ctx_exec_call_keeptype(n, fn, argv) ==
    LET w0 == Note([n.w EXCEPT !.ctx.errtype = "OK"], "reset")
    IN  spn_vm_exec_call([n EXCEPT !.w = w0], fn, argv)

\* spn_ctx_execbytecode and spn_ctx_callfunc, of such a program
spn_ctx_exec_call(n, fn, argv) ==
    LET w0 == Note([n.w EXCEPT !.ctx.errtype = "OK"], "reset")
    IN  Once(spn_vm_exec_call([n EXCEPT !.w = w0], fn, argv), LAMBDA r :
            Done(IF r.status # 0 THEN [r.n EXCEPT !.w.ctx.errtype = "RUNTIME"] ELSE r.n,
                 r.status))

(***************************************************************************)
(* The virtual machine calling a native callable: the return slot holds    *)
(* nil, the callable runs, its status and the slot are what the VM sees.   *)
(* The calls are independent runs: the state after a call records that     *)
(* call alone.                                                             *)
(***************************************************************************)
\* the world spn_ctx_new leaves: each call is a script's first call into
\* the library, made in a newly created context
NewWorld ==
    [ctx |-> [bclist |-> <<>>, errtype |-> "OK", errmsg |-> NoMsg],
     parser |-> [errmsg |-> NoMsg], cmp |-> [errmsg |-> NoMsg],
     vm |-> [errmsg |-> NoMsg], mem |-> <<>>, log |-> <<>>, returned |-> {}]

NativeEntry ==
    [w |-> NewWorld, heap |-> InitialHeap, ret |-> spn_nilval, ghost |-> GhostInit]

NativeCommit(r, fn, argv) ==
    /\ ctx' = r.n.w.ctx
    /\ parser' = r.n.w.parser
    /\ cmp' = r.n.w.cmp
    /\ vm' = r.n.w.vm
    /\ mem' = r.n.w.mem
    /\ log' = r.n.w.log
    /\ returned' = r.n.w.returned
    /\ heap' = r.n.heap
    /\ nret' = r.n.ret
    /\ nghost' = r.n.ghost
    /\ nstatus' = r.status
    /\ ncall' = [fn |-> fn, argv |-> argv]
    /\ UNCHANGED <<last, pc, head, files>>

IntArgs == ((-1)..(MaxStrLen + 1)) \cup {LONG_MAX, LONG_MIN}

ArrayArgs == {objvalue("array", o) : o \in DOMAIN InitialHeap}

SubstrArgs ==
    {<<makestring(s), makeint(b), makeint(l)>> : s \in Strings, b \in IntArgs, l \in IntArgs}
    \cup {<<>>, <<makestring(<<"a">>), makeint(0)>>,
          <<makeint(0), makeint(0), makeint(0)>>,
          <<makestring(<<"a">>), spn_nilval, makeint(0)>>,
          <<makestring(<<"a">>), makeint(0), makestring(<<>>)>>}

AnyAllArgs ==
    {<<a, funcval(f)>> : a \in ArrayArgs, f \in Callbacks}
    \cup {<<>>, <<makeint(1), funcval("fn_true")>>, <<objvalue("array", 1), makeint(1)>>}

ConcatArgs ==
    UNION {[1..k -> ArrayArgs \cup {makeint(1)}] : k \in 0..2}

CombineArgs ==
    {<<a, b>> : a \in ArrayArgs, b \in ArrayArgs}
    \cup {<<objvalue("array", 1)>>, <<objvalue("array", 1), makeint(1)>>}

RequireArgs ==
    {<<makestring(s)>> : s \in Strings} \cup {<<>>, <<makeint(1)>>}

CallArgs ==
    {<<funcval(f), a>> : f \in Callbacks, a \in ArrayArgs}
    \cup {<<>>, <<makeint(1), objvalue("array", 1)>>, <<funcval("fn_true"), makeint(1)>>}

\* the script calls one library function in the state it starts in
NativeIdle == pc = "live" /\ ncall.fn = "none"

CallSubstr(argv) ==
    /\ NativeIdle
    /\ NativeCommit(rtlb_substr(NativeEntry, argv), "substr", argv)

CallAny(argv) ==
    /\ NativeIdle
    /\ NativeCommit(rtlb_any(NativeEntry, argv), "any", argv)

CallAll(argv) ==
    /\ NativeIdle
    /\ NativeCommit(rtlb_all(NativeEntry, argv), "all", argv)

CallConcat(argv) ==
    /\ NativeIdle
    /\ NativeCommit(rtlb_concat(NativeEntry, argv), "concat", argv)

CallCombine(argv) ==
    /\ NativeIdle
    /\ NativeCommit(rtlb_combine(NativeEntry, argv), "combine", argv)

CallRequire(argv) ==
    /\ NativeIdle
    /\ NativeCommit(rtlb_require(NativeEntry, argv), "require", argv)

CallCall(argv) ==
    /\ NativeIdle
    /\ NativeCommit(rtlb_call(NativeEntry, argv), "call", argv)

SubstrToArgs ==
    {<<makestring(s), makeint(l)>> : s \in Strings, l \in IntArgs}
    \cup {<<>>, <<makeint(0), makeint(0)>>, <<makestring(<<"a">>), spn_nilval>>}

CallSubstrTo(argv) ==
    /\ NativeIdle
    /\ NativeCommit(rtlb_substrto(NativeEntry, argv), "substrto", argv)

CallSubstrFrom(argv, undef) ==
    /\ NativeIdle
    /\ NativeCommit(rtlb_substrfrom(NativeEntry, argv, undef), "substrfrom", argv)

FindArgs ==
    {<<makestring(h), makestring(d)>> : h \in ByteStrings, d \in ByteStrings}
    \cup {<<makestring(h), makestring(d), makeint(off)>> :
            h \in ByteStrings, d \in ByteStrings,
            off \in (-(MaxStrLen + 1))..(MaxStrLen + 1)}
    \cup {<<>>, <<makeint(0), makestring(<<>>)>>,
          <<makestring(<<>>), makestring(<<>>), spn_nilval>>}

SplitArgs ==
    {<<makestring(h), makestring(d)>> : h \in ByteStrings, d \in ByteStrings}
    \cup {<<>>, <<makestring(<<>>), makeint(0)>>}

\* what a read beyond the end of the buffer may come upon
UndefPieces == {<<>>, <<"a">>}

JoinArgs ==
    {<<a, makestring(d)>> : a \in ArrayArgs, d \in ByteStrings}
    \cup {<<>>, <<makeint(0), makestring(<<>>)>>, <<objvalue("array", 1), makeint(0)>>}

CallFind(argv) ==
    /\ NativeIdle
    /\ NativeCommit(rtlb_str_find(NativeEntry, argv), "find", argv)

CallSplit(argv, undef) ==
    /\ NativeIdle
    /\ NativeCommit(rtlb_split(NativeEntry, argv, undef), "split", argv)

CallJoin(argv) ==
    /\ NativeIdle
    /\ NativeCommit(rtlb_join(NativeEntry, argv), "join", argv)

\* the script passes the array split returned on to join, with the same
\* separator
JoinSplit ==
    /\ pc = "live"
    /\ ncall.fn = "split"
    /\ nstatus = 0
    /\ LET argv == <<nret, ncall.argv[2]>>
           n == [w |-> World, heap |-> heap, ret |-> spn_nilval,
                 ghost |-> [nghost EXCEPT !.prev = ncall.argv]]
       IN  NativeCommit(rtlb_join(n, argv), "join", argv)

\* longest array the script passes, and longest array it sorts
MaxArrLen == 3

MaxSortLen == 5

Elems == {makeint(i) : i \in 1..3} \cup {makestring(<<"a">>)}

Arrays == UNION {[1..k -> Elems] : k \in 0..MaxArrLen}

SortArrays == UNION {[1..k -> Elems] : k \in 0..MaxSortLen}

\* the state the script calls in when it has built an array of these items
EntryWith(items) ==
    [NativeEntry EXCEPT
        !.heap = Append(@, [rc |-> 1, kind |-> "array", items |-> items]),
        !.ghost.before = items]

\* what a read outside the array may yield
UndefValues == {spn_nilval, makeint(1)}

SortArgs ==
    {<<TheArray>>} \cup {<<TheArray, funcval(c)>> : c \in Comparators \cup Poppers}
    \cup {<<>>, <<makeint(1)>>, <<TheArray, makeint(1)>>}

CallSort(items, argv, undef) ==
    /\ NativeIdle
    /\ NativeCommit(rtlb_sort(EntryWith(items), argv, undef), "sort", argv)

\* the script sorts the array it has just sorted once more
SortAgain ==
    /\ pc = "live"
    /\ ncall.fn = "sort"
    /\ nstatus = 0
    /\ nghost.prev = <<>>
    /\ \E undef \in UndefValues :
        LET n == [w |-> World, heap |-> heap, ret |-> spn_nilval,
                  ghost |-> [GhostInit EXCEPT !.prev = ncall.argv,
                                              !.before = heap[TheArray.o].items]]
        IN  NativeCommit(rtlb_sort(n, ncall.argv, undef), "sort", ncall.argv)

\* functions a script may pass to bsearch
Predicates == {"fn_less", "fn_less_pop", "fn_true", "fn_false", "fn_int", "fn_rterr"}

BsearchArgs ==
    {<<TheArray, key>> : key \in Elems}
    \cup {<<TheArray, key, funcval(f)>> : key \in Elems, f \in Predicates}
    \cup {<<>>, <<makeint(1), makeint(1)>>, <<TheArray, makeint(1), makeint(1)>>}


CallBsearch(items, argv, undef) ==
    /\ NativeIdle
    /\ NativeCommit(rtlb_bsearch(EntryWith(items), argv, undef), "bsearch", argv)

ForeachArgs ==
    {<<TheArray, funcval(f)>> :
        f \in EachFuncs \cup {"fn_true", "fn_false", "fn_int", "fn_rterr", "fn_true_pop"}}
    \cup {<<>>, <<makeint(1), funcval("fn_true")>>, <<TheArray, makeint(1)>>}

CallForeach(items, argv, undef) ==
    /\ NativeIdle
    /\ NativeCommit(rtlb_array_foreach(EntryWith(items), argv, undef), "foreach", argv)

CallMap(items, argv, undef) ==
    /\ NativeIdle
    /\ NativeCommit(rtlb_array_map(EntryWith(items), argv, undef), "map", argv)

\* the programs the embedder runs: one call of a library function each, on
\* the values the script holds
ExecPrograms ==
    {<<"require", argv>> : argv \in RequireArgs}
    \cup {<<"compile", argv>> : argv \in RequireArgs}
    \cup {<<"exprtofn", argv>> : argv \in RequireArgs}
    \cup {<<"call", argv>> : argv \in CallArgs}
    \cup {<<"foreach", <<objvalue("array", 1), funcval(f)>>>> : f \in {"fn_true", "fn_rterr"}}
    \cup {<<"sort", <<objvalue("array", 1), funcval(f)>>>> : f \in {"fn_less", "fn_rterr"}}

\* the embedder executes a program in a newly created context
CallExec(prog) ==
    /\ NativeIdle
    /\ NativeCommit(spn_ctx_exec_call(NativeEntry, prog[1], prog[2]), "exec",
                    <<funcval(prog[1])>> \o prog[2])

\* an object that only the array refers to
OwnedObject == objvalue("array", 2)

PopArrays == UNION {[1..k -> Elems \cup {OwnedObject}] : k \in 0..MaxArrLen}

\* the state the script calls in when its array is the only holder of the
\* objects among the items: each has one reference per place it takes
EntryOwning(items) ==
    LET n == EntryWith(items)
        refs(o) == Cardinality({i \in 1..Len(items) : items[i] = objvalue("array", o)})
    IN  [n EXCEPT !.heap = [o \in DOMAIN n.heap |->
                              IF refs(o) > 0 THEN [n.heap[o] EXCEPT !.rc = refs(o)]
                              ELSE n.heap[o]]]

PopArgs == {<<TheArray>>, <<>>, <<makeint(1)>>}

CallPop(items, argv, undef) ==
    /\ NativeIdle
    /\ NativeCommit(rtlb_pop(EntryOwning(items), argv, undef), "pop", argv)

SwapArgs ==
    {<<TheArray, makeint(a), makeint(b)>> : a, b \in (-1)..MaxArrLen}
    \cup {<<>>, <<makeint(1), makeint(0), makeint(0)>>, <<TheArray, spn_nilval, makeint(0)>>}

CallSwap(items, argv, undef) ==
    /\ NativeIdle
    /\ NativeCommit(rtlb_swap(EntryOwning(items), argv, undef), "swap", argv)

\* the swap of sort, for two indices of the array
CallAuxSwap(items, i, j, undef) ==
    /\ NativeIdle
    /\ NativeCommit(Done(rtlb_aux_swap(EntryOwning(items), TheArray.o, i, j, undef), 0),
                    "rtlb_aux_swap", <<TheArray, makeint(i), makeint(j)>>)

(***************************************************************************)
(* The embedder loading the standard library into a virtual machine whose  *)
(* class table is empty, as spn_ctx_new does, and loading it again.        *)
(***************************************************************************)
MaxStdlibLoads == 2

\* spn_vm_new: the class table is the only object
StdlibInit ==
    /\ CtxInit
    /\ ncall = [fn |-> "none", argv |-> <<>>]
    /\ nret = spn_nilval
    /\ nstatus = 0
    /\ heap = << [rc |-> 1, kind |-> "hashmap", items |-> <<>>] >>
    /\ nghost = GhostInit
    /\ files = StdStreams

StdlibNow == [w |-> World, heap |-> heap, ret |-> nret, ghost |-> nghost]

Aborted == \E i \in DOMAIN nghost.steps : nghost.steps[i].op = "abort"

\* the loads made so far
StdlibLoads == IF ncall.fn = "none" THEN 0 ELSE ncall.argv[1].i

LoadStdlib ==
    /\ pc = "live"
    /\ nghost.locals = <<>>
    /\ ~Aborted
    /\ StdlibLoads < MaxStdlibLoads
    /\ NativeCommit(Done([StdlibNow EXCEPT !.ghost.locals = <<1, <<>> >>], 0),
                    "spn_load_stdlib", <<makeint(StdlibLoads + 1)>>)

StdlibStep ==
    /\ ncall.fn = "spn_load_stdlib"
    /\ nghost.locals # <<>>
    /\ NativeCommit(Done(spn_load_stdlib_step(StdlibNow, StdlibProgram[nghost.locals[1]]), 0),
                    "spn_load_stdlib", ncall.argv)

StdlibNext == LoadStdlib \/ StdlibStep

StdlibSpec == StdlibInit /\ [][StdlibNext]_vars

\* most entries of the map the script passes
MaxMapLen == 3

\* the map the script builds before it calls into the library: it takes the
\* place of the array
TheMap == objvalue("hashmap", TheArray.o)

MapKeys == {makeint(1), makeint(2), makestring(<<"a">>)}

Maps ==
    {m \in UNION {[1..k -> [k : MapKeys, v : {makeint(i) : i \in 1..3}]] : k \in 0..MaxMapLen} :
        \A i, j \in DOMAIN m : m[i].k = m[j].k => i = j}

\* the state the script calls in when it has built a map of these entries
EntryWithMap(entries) == [EntryWith(entries) EXCEPT !.heap[TheMap.o].kind = "hashmap"]

HashmapArgs ==
    {<<TheMap, funcval(f)>> :
        f \in {"fn_true", "fn_false", "fn_isone", "fn_int", "fn_rterr", "fn_each",
               "fn_true_pop"}}
    \cup {<<>>, <<makeint(1), funcval("fn_true")>>, <<TheMap, makeint(1)>>}

CallHashmapForeach(entries, argv, undef) ==
    /\ NativeIdle
    /\ NativeCommit(rtlb_hashmap_foreach(EntryWithMap(entries), argv, undef),
                    "hashmap_foreach", argv)

CallHashmapMap(entries, argv, undef) ==
    /\ NativeIdle
    /\ NativeCommit(rtlb_hashmap_map(EntryWithMap(entries), argv, undef), "hashmap_map", argv)

CallHashmapFilter(entries, argv, undef) ==
    /\ NativeIdle
    /\ NativeCommit(rtlb_hashmap_filter(EntryWithMap(entries), argv, undef),
                    "hashmap_filter", argv)

Numbers == {makeint(i) : i \in (-1)..2} \cup {makefloat(1)}

RangeArgs ==
    {<<a>> : a \in Numbers \cup {makeint(3)}}
    \cup {<<a, b>> : a \in Numbers, b \in Numbers}
    \cup {<<a, b, step>> : a \in {makeint(0), makeint(1), makefloat(1)},
                           b \in {makeint(0), makeint(1), makefloat(3)},
                           step \in {makeint(-1), makeint(0), makeint(1), makefloat(1)}}
    \cup {<<>>, <<makeint(0), makeint(1), makeint(1), makeint(1)>>,
          <<makeint(0), makestring(<<"a">>)>>}

CallRange(argv) ==
    /\ NativeIdle
    /\ NativeCommit(rtlb_range(NativeEntry, argv), "range", argv)

\* the running call of range is inside its loop
InRange == ncall.fn = "range" /\ nghost.locals # <<>>

\* The array of the model keeps the first MaxRangeLen elements the loop
\* pushed; of the rounds after them only the loop counter's being odd or even
\* is kept, so a loop that goes on for ever goes on in the model too.
RangeStep ==
    /\ InRange
    /\ LET n == [w |-> World, heap |-> heap, ret |-> nret, ghost |-> nghost]
           i == nghost.locals[1]
           range == nghost.locals[2]
           r == rtlb_range_step(n, ncall.argv)
           more == [n EXCEPT !.ghost.locals =
                        <<IF i = MaxRangeLen THEN i + 1 ELSE MaxRangeLen, range>>]
       IN  NativeCommit(Done(IF Len(r.heap[range].items) > MaxRangeLen THEN more ELSE r, 0),
                        "range", ncall.argv)

(***************************************************************************)
(* A script making I/O calls one after the other.  A call that fails ends  *)
(* the script; the handles it passes are the three constants of the        *)
(* library and the ones earlier calls returned.                            *)
(***************************************************************************)
IoEntry ==
    [w |-> World, heap |-> heap, ret |-> spn_nilval, ghost |-> GhostInit, files |-> files]

IoCommit(r, fn, argv) ==
    /\ ctx' = r.n.w.ctx
    /\ parser' = r.n.w.parser
    /\ cmp' = r.n.w.cmp
    /\ vm' = r.n.w.vm
    /\ mem' = r.n.w.mem
    /\ log' = r.n.w.log
    /\ returned' = r.n.w.returned
    /\ heap' = r.n.heap
    /\ nret' = r.n.ret
    /\ nghost' = r.n.ghost
    /\ nstatus' = r.status
    /\ ncall' = [fn |-> fn, argv |-> argv]
    /\ files' = r.n.files
    /\ UNCHANGED <<last, pc, head>>

IoRuns == pc = "live" /\ nstatus = 0

Handles == {makeweakuserinfo(f) : f \in DOMAIN files}

HandleArgs == {<<h>> : h \in Handles} \cup {<<>>, <<makeint(1)>>}

PathArgs ==
    {<<makestring(s)>> : s \in {<<"a">>, <<"b">>, <<"a", "b">>, <<"b", "b">>}}
    \cup {<<>>, <<makeint(1)>>}

FopenArgs ==
    {<<makestring(s), makestring(<<"r">>)>> : s \in {<<"a">>, <<"b">>, <<"b", "b">>}}
    \cup {<<>>, <<makestring(<<"a">>), makeint(1)>>}

IoNext ==
    /\ IoRuns
    /\ \/ \E argv \in FopenArgs : IoCommit(rtlb_fopen(IoEntry, argv), "fopen", argv)
       \/ IoCommit(rtlb_tmpfile(IoEntry), "tmpfile", <<>>)
       \/ \E argv \in HandleArgs : IoCommit(rtlb_fclose(IoEntry, argv), "fclose", argv)
       \/ \E argv \in HandleArgs, undef \in BOOLEAN :
                IoCommit(rtlb_fflush(IoEntry, argv, undef), "fflush", argv)
       \/ \E argv \in PathArgs : IoCommit(rtlb_readfile(IoEntry, argv), "readfile", argv)

NativeInit ==
    /\ CtxInit
    /\ ncall = [fn |-> "none", argv |-> <<>>]
    /\ nret = spn_nilval
    /\ nstatus = 0
    /\ heap = InitialHeap
    /\ nghost = GhostInit
    /\ files = StdStreams

\* the calls a script makes in the state it starts in
NativeCall ==
    \/ \E argv \in SubstrArgs : CallSubstr(argv)
    \/ \E argv \in AnyAllArgs : CallAny(argv)
    \/ \E argv \in AnyAllArgs : CallAll(argv)
    \/ \E argv \in ConcatArgs : CallConcat(argv)
    \/ \E argv \in CombineArgs : CallCombine(argv)
    \/ \E argv \in RequireArgs : CallRequire(argv)
    \/ \E argv \in CallArgs : CallCall(argv)
    \/ \E argv \in SubstrToArgs : CallSubstrTo(argv)
    \/ \E argv \in SubstrToArgs, undef \in IntArgs : CallSubstrFrom(argv, undef)
    \/ \E argv \in FindArgs : CallFind(argv)
    \/ \E argv \in SplitArgs, undef \in UndefPieces : CallSplit(argv, undef)
    \/ \E argv \in JoinArgs : CallJoin(argv)
    \/ \E items \in SortArrays, argv \in SortArgs, undef \in UndefValues :
            CallSort(items, argv, undef)
    \/ \E items \in Arrays, argv \in BsearchArgs, undef \in UndefValues :
            CallBsearch(items, argv, undef)
    \/ \E items \in Arrays, argv \in ForeachArgs, undef \in UndefValues :
            CallForeach(items, argv, undef)
    \/ \E items \in Arrays, argv \in ForeachArgs, undef \in UndefValues :
            CallMap(items, argv, undef)
    \/ \E items \in PopArrays, argv \in PopArgs, undef \in UndefValues :
            CallPop(items, argv, undef)
    \/ \E prog \in ExecPrograms : CallExec(prog)
    \/ \E argv \in RangeArgs : CallRange(argv)
    \/ \E items \in PopArrays, argv \in SwapArgs, undef \in UndefValues :
            CallSwap(items, argv, undef)
    \/ \E items \in PopArrays, undef \in UndefValues :
            \E i, j \in 0..(Len(items) - 1) : CallAuxSwap(items, i, j, undef)
    \/ \E entries \in Maps, argv \in HashmapArgs, undef \in BOOLEAN :
            CallHashmapForeach(entries, argv, undef)
    \/ \E entries \in Maps, argv \in HashmapArgs, undef \in BOOLEAN :
            CallHashmapMap(entries, argv, undef)
    \/ \E entries \in Maps, argv \in HashmapArgs, undef \in BOOLEAN :
            CallHashmapFilter(entries, argv, undef)

NativeNext ==
    \/ NativeIdle /\ NativeCall
    \/ JoinSplit
    \/ SortAgain
    \/ RangeStep

NativeSpec == NativeInit /\ [][NativeNext]_vars

\* a call that has entered a loop goes on
FairNativeSpec == NativeSpec /\ WF_vars(RangeStep)

\* the script starts with the three standard streams open
IoSpec == NativeInit /\ [][IoNext]_vars

(***************************************************************************)
(* Properties of the native callables.                                     *)
(***************************************************************************)
\* a runtime error message was set while the callable ran
ErrMsgSet == Events(log) \cap {"seterrmsg", "vm_err"} # {}

\* C7: a native callable that returns a non-zero status leaves in the
\* return slot the nil it was initialised with.
C7_RetNilOnError ==
    (ncall.fn # "none" /\ nstatus # 0) => nret = spn_nilval

\* C8: a native callable that returns non-zero returns a negative status,
\* and a runtime error message was set during the call.
C8_NegativeWithMessage ==
    (ncall.fn # "none" /\ nstatus # 0) => (nstatus < 0 /\ ErrMsgSet)

\* C10: substr(s, start, len) succeeds exactly when 0 <= start <= slen,
\* 0 <= len and start+len <= slen, and then returns the len bytes of s from
\* start; every violation gives a negative status and a runtime error naming
\* the bound (start first, then length, then end); start+len is only
\* computed with both operands in [0, slen].
C10_Substr ==
    (/\ ncall.fn = "substr"
     /\ Len(ncall.argv) = 3
     /\ isstring(ncall.argv[1]) /\ isint(ncall.argv[2]) /\ isint(ncall.argv[3])) =>
        LET s == ncall.argv[1].s
            start == ncall.argv[2].i
            len == ncall.argv[3].i
            slen == Len(s)
            startok == 0 <= start /\ start <= slen
            ok == startok /\ 0 <= len /\ start + len <= slen
            text == vm.errmsg.about
        IN  /\ (nstatus = 0) <=> ok
            /\ ok => /\ isstring(nret)
                     /\ Len(nret.s) = len
                     /\ \A k \in 1..len : nret.s[k] = s[start + k]
            /\ ~ok => /\ nstatus < 0
                      /\ nret = spn_nilval
                      /\ ErrMsgSet
                      /\ text \in {"starting index is negative or too high",
                                   "length is negative or too big",
                                   "end of substring is out of bounds"}
                      /\ ~startok <=> text = "starting index is negative or too high"
                      /\ (startok /\ len < 0) => text = "length is negative or too big"
                      /\ text = "end of substring is out of bounds" =>
                            (startok /\ len >= 0 /\ start + len > slen)
            /\ nghost.sumops # <<>> =>
                  /\ 0 <= nghost.sumops[1] /\ nghost.sumops[1] <= slen
                  /\ 0 <= nghost.sumops[2] /\ nghost.sumops[2] <= slen

C10_Witness ==
    /\ ncall.fn = "substr"
    /\ Len(ncall.argv) = 3
    /\ isstring(ncall.argv[1]) /\ isint(ncall.argv[2]) /\ isint(ncall.argv[3])
    /\ Len(ncall.argv[1].s) = 2
    /\ ncall.argv[2].i = 1
    /\ ncall.argv[3].i = LONG_MAX
    /\ nstatus < 0
    /\ vm.errmsg.about = "length is negative or too big"

\* what the caller of a callable sees: status, returned value, error message
Outcome(r) == <<r.status, r.n.ret, r.n.w.vm.errmsg>>

NativeOutcome == <<nstatus, nret, vm.errmsg>>

\* both arguments have the types the substring functions ask for
IsStrInt(argv) == Len(argv) = 2 /\ isstring(argv[1]) /\ isint(argv[2])

\* C11: substr(s, 0, len(s)) is s and substr(s, i, 0) is the empty string for
\* i in [0, len(s)]; substrto(s, n) ends as substr(s, 0, n) does, in result or
\* in error; substrfrom(s, i) ends as substr(s, i, len(s) - i) does for i in
\* [0, len(s)] and fails for every other i.
C11_SubstrFamily ==
    /\ (ncall.fn = "substr" /\ Len(ncall.argv) = 3 /\ IsStrInt(SubSeq(ncall.argv, 1, 2))
            /\ isint(ncall.argv[3])) =>
          LET str == ncall.argv[1].s
              begin == ncall.argv[2].i
              length == ncall.argv[3].i
          IN  /\ (begin = 0 /\ length = Len(str)) =>
                    (nstatus = 0 /\ nret = makestring(str))
              /\ (begin \in 0..Len(str) /\ length = 0) =>
                    (nstatus = 0 /\ nret = makestring(<<>>))
    /\ (ncall.fn = "substrto" /\ IsStrInt(ncall.argv)) =>
          NativeOutcome =
            Outcome(rtlb_substr(NativeEntry, <<ncall.argv[1], makeint(0), ncall.argv[2]>>))
    /\ (ncall.fn = "substrfrom" /\ IsStrInt(ncall.argv)) =>
          LET str == ncall.argv[1].s
              begin == ncall.argv[2].i
          IN  IF begin \in 0..Len(str)
              THEN NativeOutcome =
                     Outcome(rtlb_substr(NativeEntry,
                                <<ncall.argv[1], ncall.argv[2], makeint(Len(str) - begin)>>))
              ELSE nstatus # 0

C11_Witness ==
    /\ ncall.fn = "substrfrom"
    /\ ncall.argv = <<makestring(<<"a", "b">>), makeint(1)>>
    /\ nstatus = 0
    /\ nret = makestring(<<"b">>)

\* the smallest offset >= from at which needle occurs in the len bytes of
\* str, -1 when there is none
Occurrence(str, needle, from) ==
    LET hits == {i \in from..(Len(str) - Len(needle)) :
                    SubSeq(str, i + 1, i + Len(needle)) = needle}
    IN  IF hits = {} THEN -1 ELSE CHOOSE i \in hits : \A j \in hits : i <= j

\* the pieces between the non-overlapping occurrences of sep in str, found
\* scanning left to right
RECURSIVE Pieces(_, _)
Pieces(str, sep) ==
    LET i == Occurrence(str, sep, 0)
    IN  IF i = -1 THEN <<makestring(str)>>
        ELSE <<makestring(SubSeq(str, 1, i))>>
             \o Pieces(SubSeq(str, i + Len(sep) + 1, Len(str)), sep)

\* C12: for every string s and every non-empty separator sep,
\* join(split(s, sep), sep) equals s.  (Stated for the calls that stay
\* within defined behaviour.)
C12_SplitJoinRoundTrip ==
    (ncall.fn = "join" /\ nghost.prev # <<>> /\ ~nghost.ub) =>
        (nstatus = 0 /\ nret = nghost.prev[1])

\* C13: split fails with a runtime error when sep is empty; otherwise it
\* returns exactly k + 1 strings, k the number of non-overlapping occurrences
\* of sep found scanning left to right: the pieces in order, the empty pieces
\* of leading, trailing and adjacent separators included.  (Stated for the
\* calls that stay within defined behaviour.)
C13_SplitPieces ==
    (ncall.fn = "split" /\ Len(ncall.argv) = 2 /\ ~nghost.ub
        /\ isstring(ncall.argv[1]) /\ isstring(ncall.argv[2])) =>
        IF ncall.argv[2].s = <<>>
        THEN nstatus # 0 /\ ErrMsgSet
        ELSE /\ nstatus = 0
             /\ isarray(nret)
             /\ heap[nret.o].items = Pieces(ncall.argv[1].s, ncall.argv[2].s)

\* C14: find normalizes a negative offset by adding the length of the
\* haystack, fails when the normalized offset is outside [0, len], and
\* otherwise returns the smallest index >= the normalized offset at which
\* the needle occurs in the haystack, or -1; the offset defaults to 0.
C14_Find ==
    (ncall.fn = "find" /\ Len(ncall.argv) \in {2, 3}
        /\ isstring(ncall.argv[1]) /\ isstring(ncall.argv[2])
        /\ (Len(ncall.argv) = 3 => isint(ncall.argv[3]))) =>
        LET haystack == ncall.argv[1].s
            off == IF Len(ncall.argv) = 3 THEN ncall.argv[3].i ELSE 0
            norm == IF off < 0 THEN off + Len(haystack) ELSE off
        IN  IF norm \notin 0..Len(haystack)
            THEN nstatus # 0
            ELSE /\ nstatus = 0
                 /\ nret = makeint(Occurrence(haystack, ncall.argv[2].s, norm))

\* the items of the array the script passed, after the call
ItemsNow == heap[TheArray.o].items

\* the same elements, each as often
IsPermutation(s, t) ==
    /\ Len(s) = Len(t)
    /\ \A v \in {s[i] : i \in 1..Len(s)} :
          Cardinality({i \in 1..Len(s) : s[i] = v})
            = Cardinality({i \in 1..Len(t) : t[i] = v})

MutuallyComparable(s) ==
    \A i, j \in 1..Len(s) : spn_values_comparable(s[i], s[j])

IsSorted(s) ==
    \A i, j \in 1..Len(s) : i < j => spn_value_compare(s[j], s[i]) >= 0

\* a sort of an array, with arguments rtlb_sort accepts
SortRan ==
    /\ ncall.fn = "sort"
    /\ Len(ncall.argv) \in {1, 2}
    /\ isarray(ncall.argv[1])
    /\ Len(ncall.argv) = 2 => isfunc(ncall.argv[2])

\* C15: sort without a comparator, on an array of mutually comparable
\* elements, returns 0 and leaves a sorted permutation of the elements;
\* sorting the sorted array once more changes nothing; [3, 1, 2] becomes
\* [1, 2, 3].
C15_SortSorts ==
    (SortRan /\ Len(ncall.argv) = 1 /\ MutuallyComparable(nghost.before)) =>
        /\ nstatus = 0
        /\ IsSorted(ItemsNow)
        /\ IsPermutation(ItemsNow, nghost.before)
        /\ nghost.prev # <<>> => ItemsNow = nghost.before
        /\ nghost.before = <<makeint(3), makeint(1), makeint(2)>> =>
              ItemsNow = <<makeint(1), makeint(2), makeint(3)>>

C15_Witness ==
    /\ SortRan /\ Len(ncall.argv) = 1
    /\ nghost.prev # <<>>
    /\ ItemsNow = <<makeint(1), makeint(2), makeint(3)>>
    /\ Len(nghost.steps) > 0

\* a comparison that did not yield a Boolean: the comparator failed or
\* returned something else, or the elements cannot be compared
FailedComparison(step) ==
    /\ step.op \in {"call", "compare"}
    /\ step.status # 0 \/ ~isbool(step.value)

BsearchRan ==
    /\ ncall.fn = "bsearch"
    /\ Len(ncall.argv) \in {2, 3}
    /\ isarray(ncall.argv[1])
    /\ Len(ncall.argv) = 3 => isfunc(ncall.argv[3])

\* the less-than ordering in use: the built-in one, or the function that
\* computes it
OrderingInUse == Len(ncall.argv) = 2 \/ ncall.argv[3].f = "fn_less"

\* x < y where the ordering compares x and y
Less(x, y) == spn_values_comparable(x, y) /\ spn_value_compare(x, y) < 0

\* the indices (from 0) of the elements that are equal to the key: neither
\* is less than the other
EqualTo(key, s) == {i \in 0..(Len(s) - 1) : ~Less(key, s[i + 1]) /\ ~Less(s[i + 1], key)}

BsearchFinds ==
    /\ nstatus = 0
    /\ EqualTo(ncall.argv[2], nghost.before) # {} =>
            (isint(nret) /\ nret.i \in EqualTo(ncall.argv[2], nghost.before))
    /\ EqualTo(ncall.argv[2], nghost.before) = {} => nret = makeint(-1)

\* C17 as stated: for every array sorted under the less-than ordering in use
\* and every key, bsearch returns an index of an element equal to the key
\* (neither less than the other) when there is one, and -1 exactly when
\* there is none.
C17_BsearchEveryKey ==
    (BsearchRan /\ OrderingInUse /\ MutuallyComparable(nghost.before)
        /\ IsSorted(nghost.before)) => BsearchFinds

\* C17, amended: the same for every key that the ordering compares with the
\* elements of the array; with a key it does not compare with the element
\* in the middle, bsearch fails with a runtime error.
C17_BsearchComparableKey ==
    (BsearchRan /\ OrderingInUse /\ MutuallyComparable(nghost.before)
        /\ IsSorted(nghost.before)) =>
        IF \A i \in 1..Len(nghost.before) :
                spn_values_comparable(ncall.argv[2], nghost.before[i])
        THEN BsearchFinds
        ELSE nstatus # 0 /\ ErrMsgSet

C17_Witness ==
    /\ BsearchRan /\ OrderingInUse
    /\ nghost.before = <<makeint(1), makeint(2), makeint(3)>>
    /\ ncall.argv[2] = makeint(1)
    /\ nstatus = 0
    /\ nret = makeint(0)

\* the comparator returned a Boolean whenever it was called
ReturnedBooleans ==
    \A k \in 1..Len(nghost.steps) :
        nghost.steps[k].op = "call" =>
            (nghost.steps[k].status = 0 /\ isbool(nghost.steps[k].value))

\* C18: for every array, sorted or not, and every comparator that returns
\* Booleans, bsearch returns; lower <= upper holds at every recursive call;
\* every index it reads is in [0, count); and the result is -1 or an index
\* in [0, count).
C18_BsearchInBounds ==
    (BsearchRan /\ Len(ncall.argv) = 3 /\ ReturnedBooleans) =>
        /\ nstatus = 0
        /\ \A k \in 1..Len(nghost.steps) :
              LET step == nghost.steps[k]
              IN  /\ step.op = "assert" => step.args[1] <= step.args[2]
                  /\ step.op = "read" => step.args[1] \in 0..(step.args[2] - 1)
        /\ isint(nret)
        /\ nret.i = -1 \/ nret.i \in 0..(Len(ItemsNow) - 1)

\* the callback calls of the native call, in order
CallsMade == SelectSeq(nghost.steps, LAMBDA step : step.op = "call")

\* what a callback call tells foreach to do
Verdict(call) ==
    IF call.status # 0 THEN "failed"
    ELSE IF call.value = makebool(FALSE) THEN "stop"
    ELSE IF isbool(call.value) \/ call.value = spn_nilval THEN "continue"
    ELSE "other"

\* C19: array foreach invokes the callback once per element, in ascending
\* index order, with the arguments (value, index); it stops with status 0
\* right after the first callback that returns false, continues after true or
\* nil, fails with a runtime error on any other return value, and never
\* invokes the callback again after a callback call has failed.
C19_ForeachProtocol ==
    (ncall.fn = "foreach" /\ Len(ncall.argv) = 2 /\ isarray(ncall.argv[1])
        /\ isfunc(ncall.argv[2])) =>
        LET calls == CallsMade
            m == Len(calls)
        IN  /\ m <= Len(nghost.before)
            /\ \A k \in 1..m : calls[k].args = <<nghost.before[k], makeint(k - 1)>>
            /\ \A k \in 1..(m - 1) : Verdict(calls[k]) = "continue"
            /\ IF m = 0 \/ Verdict(calls[m]) = "continue"
               THEN m = Len(nghost.before) /\ nstatus = 0
               ELSE IF Verdict(calls[m]) = "stop" THEN nstatus = 0
               ELSE nstatus # 0 /\ ErrMsgSet

\* the reference count of object o came down to zero during the call
ReachedZero(o) ==
    \E k \in 1..Len(nghost.steps) :
        nghost.steps[k].op = "release" /\ nghost.steps[k].args = <<o, 0>>

\* C20: pop on an empty array fails with a runtime error and leaves the array
\* unchanged; pop on a non-empty array returns the former last element, the
\* count goes down by exactly one, the other elements stay as they are and in
\* their order, and the reference count of the returned element never
\* reaches zero during the call.
C20_Pop ==
    (ncall.fn = "pop" /\ ncall.argv = <<TheArray>>) =>
        LET count == Len(nghost.before)
        IN  IF count = 0
            THEN nstatus # 0 /\ ErrMsgSet /\ ItemsNow = <<>>
            ELSE /\ nstatus = 0
                 /\ nret = nghost.before[count]
                 /\ ItemsNow = SubSeq(nghost.before, 1, count - 1)
                 /\ isobject(nret) => (~ReachedZero(nret.o) /\ heap[nret.o].rc >= 1)

\* the array gave up its only reference to the object it returned
C20_Witness ==
    /\ ncall.fn = "pop"
    /\ nstatus = 0
    /\ nret = OwnedObject
    /\ Len(ItemsNow) = 1
    /\ OwnedObject \notin {ItemsNow[i] : i \in 1..Len(ItemsNow)}
    /\ heap[OwnedObject.o].rc = 1
    /\ \E k \in 1..Len(nghost.steps) : nghost.steps[k].op = "release"

\* the array range is said to return: [0, n), [a, b), or the terms
\* a, a + step, ... that are <= b (for a positive step)
RangeTerms(argv) ==
    IF Len(argv) = 1 THEN [k \in 1..argv[1].i |-> makeint(k - 1)]
    ELSE IF Len(argv) = 2
    THEN [k \in 1..(argv[2].i - argv[1].i) |-> makeint(argv[1].i + k - 1)]
    ELSE LET a == FLOATVAL(argv[1])
             b == FLOATVAL(argv[2])
             step == FLOATVAL(argv[3])
         IN  [k \in {j \in 1..(MaxRangeLen + 1) : \A m \in 1..j : a + step * (m - 1) <= b}
                |-> makefloat(a + step * (k - 1))]

RangeAccepted ==
    /\ ncall.fn = "range"
    /\ Len(ncall.argv) \in 1..3
    /\ \A i \in 1..Len(ncall.argv) : isnumber(ncall.argv[i])
    /\ Len(ncall.argv) < 3 => \A i \in 1..Len(ncall.argv) : isint(ncall.argv[i])

\* C21: range(n) returns the integers [0, n) in order, range(a, b) returns
\* [a, b), range(a, b, step) the terms a, a + step, ... up to the last one
\* <= b; for every accepted list of numbers, a zero or negative step
\* included, the call terminates with a finite array.
C21_RangeTerminates ==
    /\ [](RangeAccepted /\ ~InRange =>
            /\ nstatus = 0
            /\ isarray(nret)
            /\ heap[nret.o].items = RangeTerms(ncall.argv))
    /\ (RangeAccepted /\ InRange) ~> ~InRange

\* C22: whatever I/O calls a script makes, stdin, stdout and stderr are
\* never closed, and a handle that fopen returned is closed by an fclose
\* called on that handle and by nothing else.
C22_StreamsStayOpen ==
    /\ [](\A f \in 1..3 : files[f].open)
    /\ [][\A f \in DOMAIN files :
            (files[f].openedby = "rtlb_fopen" /\ files[f].open /\ ~files'[f].open) =>
                ncall' = [fn |-> "fclose", argv |-> <<makeweakuserinfo(f)>>]]_vars

\* the file named in the call of readfile can be opened: it exists and the
\* C library has a FILE left for it
ReadfileCanOpen ==
    /\ ncall.argv[1].s \in DOMAIN FileSystem
    /\ Len(files) < MaxFiles

\* C23: readfile of a file that can be opened and read returns status 0 and
\* a string holding all its bytes unchanged, as long as the file is, a file
\* of size zero included; it returns a negative status with a runtime error
\* set only when the file cannot be opened or read.
C23_ReadfileWholeFile ==
    (ncall.fn = "readfile" /\ Len(ncall.argv) = 1 /\ isstring(ncall.argv[1])) =>
        IF ReadfileCanOpen
        THEN /\ nstatus = 0
             /\ nret = makestring(FileSystem[ncall.argv[1].s])
        ELSE nstatus < 0 /\ ErrMsgSet

HashmapIterated ==
    /\ ncall.fn \in {"hashmap_foreach", "hashmap_map", "hashmap_filter"}
    /\ Len(ncall.argv) = 2 /\ ishashmap(ncall.argv[1]) /\ isfunc(ncall.argv[2])

\* the callback changed the map between two calls of next
MutatedWhileIterated ==
    \E i \in DOMAIN nghost.steps :
        nghost.steps[i].op = "call" /\ nghost.steps[i].status = 0
        /\ ncall.argv[2].f \in Poppers

\* C24: when the callback of hashmap foreach, map or filter mutates the map
\* that is iterated, the iteration fails with a runtime error and a non-zero
\* status instead of going on with the invalidated cursor.
C24_MutationDetected ==
    (HashmapIterated /\ MutatedWhileIterated) => (nstatus # 0 /\ ErrMsgSet)

EntriesOf(items) == {items[i] : i \in DOMAIN items}

\* what the callback of the call returns for an entry
ReturnedFor(e) == CallbackValue(ncall.argv[2].f, <<e.v, e.k>>)

HashmapReturned(fn) ==
    /\ ncall.fn = fn
    /\ Len(ncall.argv) = 2 /\ ishashmap(ncall.argv[1]) /\ isfunc(ncall.argv[2])
    /\ nstatus = 0

\* C30: hashmap map returns a new map with exactly the key set of the input
\* map, each key mapped to what the callback returned for (value, key), and
\* leaves the input map unchanged; hashmap filter returns a new map holding
\* exactly the input entries for which the predicate returned true.
C30_HashmapMapFilter ==
    /\ HashmapReturned("hashmap_map") =>
            /\ ishashmap(nret) /\ nret # TheMap
            /\ EntriesOf(heap[nret.o].items) =
                    {[k |-> e.k, v |-> ReturnedFor(e)] : e \in EntriesOf(nghost.before)}
            /\ heap[TheMap.o].items = nghost.before
    /\ HashmapReturned("hashmap_filter") =>
            /\ ishashmap(nret) /\ nret # TheMap
            /\ EntriesOf(heap[nret.o].items) =
                    {e \in EntriesOf(nghost.before) : ReturnedFor(e) = makebool(TRUE)}

\* the entry of the class table for a type tag, and of a class for a name
ClassOf(typetag) == spn_hashmap_get(StdlibNow, Classes.o, makeint(typetag))

MethodOf(typetag, name) == spn_hashmap_get(StdlibNow, ClassOf(typetag).o, makestring(name))

StdlibLoaded == ncall.fn = "spn_load_stdlib" /\ nghost.locals = <<>> /\ ~Aborted

\* spn_load_stdlib is past init_stdlib_classes
LoadingLibraries ==
    /\ ncall.fn = "spn_load_stdlib" /\ nghost.locals # <<>>
    /\ nghost.locals[1] > Len(init_stdlib_classes)

HasClasses ==
    /\ \A t \in TypeTags : ishashmap(ClassOf(t)) /\ heap[ClassOf(t).o].rc >= 1
    /\ \A t, u \in TypeTags : ClassOf(t) = ClassOf(u) => t = u

\* C25: after spn_load_stdlib the class table holds a method dictionary for
\* each of the type tags String, Array, HashMap and Func; the dictionaries
\* exist before any library is loaded, so the assertion of the class lookup
\* holds at every load_methods call; and every registered method name maps,
\* in the dictionary of its own type tag, to the native function registered
\* for that type: no registration overwrites another type's.
C25_StdlibClasses ==
    /\ (LoadingLibraries \/ StdlibLoaded) => HasClasses
    /\ \A i \in DOMAIN nghost.steps :
            nghost.steps[i].op = "assert" => nghost.steps[i].value = makebool(TRUE)
    /\ StdlibLoaded =>
            \A t \in TypeTags : \A i \in DOMAIN StdlibMethods[t] :
                LET name == StdlibMethods[t][i][1]
                IN  MethodOf(t, name) = makenativefunc(name, StdlibMethods[t][i][2])

C25_Witness ==
    /\ StdlibLoaded
    /\ MethodOf("SPN_TTAG_STRING", "find").f = "rtlb_str_find"
    /\ MethodOf("SPN_TTAG_ARRAY", "find").f = "rtlb_arr_find"
    /\ MethodOf("SPN_TTAG_HASHMAP", "map").f = "rtlb_hashmap_map"
    /\ Cardinality(EntriesOf(nghost.steps) \cap
                   {st \in EntriesOf(nghost.steps) : st.op = "assert"}) >= 4

\* C26: for every array and every comparator that returns Booleans, an
\* inconsistent, non-transitive or constant one included, sort terminates;
\* the partition index returned for a range [left, right] lies in
\* [left, right], both recursive sub-ranges are strictly smaller than the
\* range, and every index read or swapped lies in [0, count).
C26_SortInBounds ==
    (SortRan /\ Len(ncall.argv) = 2 /\ ReturnedBooleans) =>
        /\ nstatus = 0
        /\ \A k \in 1..Len(nghost.steps) :
              LET step == nghost.steps[k]
                  left == step.args[1]
                  right == step.args[2]
                  pivot_index == step.args[3]
              IN  /\ step.op = "partition" =>
                        /\ pivot_index \in left..right
                        /\ (pivot_index - 1) - left + 1 < right - left + 1
                        /\ right - (pivot_index + 1) + 1 < right - left + 1
                  /\ step.op = "read" => step.args[1] \in 0..(step.args[2] - 1)

\* C29: the swap of sort and the array method swap exchange the elements at
\* two indices of the array, which may be equal, without the reference count
\* of any element reaching zero on the way, and leave every reference count
\* as it was before the call; swap with an index outside [0, count) fails
\* with a runtime error and leaves the array unchanged.
C29_Swap ==
    (ncall.fn \in {"swap", "rtlb_aux_swap"} /\ Len(ncall.argv) = 3
        /\ ncall.argv[1] = TheArray /\ isint(ncall.argv[2]) /\ isint(ncall.argv[3])) =>
        LET before == nghost.before
            a == ncall.argv[2].i
            b == ncall.argv[3].i
            inrange(x) == x \in 0..(Len(before) - 1)
        IN  /\ \A o \in DOMAIN heap :
                    ~ReachedZero(o) /\ heap[o].rc = EntryOwning(before).heap[o].rc
            /\ IF inrange(a) /\ inrange(b)
               THEN /\ nstatus = 0
                    /\ ItemsNow = [before EXCEPT ![a + 1] = before[b + 1],
                                                 ![b + 1] = before[a + 1]]
               ELSE nstatus # 0 /\ ErrMsgSet /\ ItemsNow = before

\* an object that only the array holds is swapped with itself
C29_Witness ==
    /\ ncall.fn = "swap" /\ nstatus = 0
    /\ ncall.argv[2] = ncall.argv[3]
    /\ ItemsNow[ncall.argv[2].i + 1] = OwnedObject
    /\ heap[OwnedObject.o].rc = 1
    /\ \E k \in 1..Len(nghost.steps) : nghost.steps[k].op = "release"


\* an array foreach or map that got an array and a function
ArrayIterated ==
    /\ ncall.fn \in {"foreach", "map"}
    /\ Len(ncall.argv) = 2
    /\ isarray(ncall.argv[1])
    /\ isfunc(ncall.argv[2])

\* C27: during array foreach and map every index passed to the array getter
\* is smaller than the element count of the array at the moment of the read,
\* also when the callback invoked on an earlier element removed elements of
\* the array being iterated.
C27_IterationReadsInBounds ==
    ArrayIterated =>
        \A k \in 1..Len(nghost.steps) :
            nghost.steps[k].op = "read" =>
                nghost.steps[k].args[1] \in 0..(nghost.steps[k].args[2] - 1)

\* the embedder ran a program that calls the library function fn
ExecRan(fn) == ncall.fn = "exec" /\ ncall.argv[1] = funcval(fn)

\* a call back into the context failed during the run: the parser or the
\* compiler rejected a text, a file could not be read, or a function failed
NestedFailed ==
    Events(log) \cap {"parse_rej", "compile_rej", "read_fail", "vm_err"} # {}

\* compile or exprtofn was given a text that the parser or the compiler rejects
CompileFailed ==
    /\ ExecRan("compile") \/ ExecRan("exprtofn")
    /\ Len(ncall.argv) = 2
    /\ isstring(ncall.argv[2])
    /\ SourceText(ncall.argv[2].s) \in {"synerr", "semerr"}

\* C28: when a library function called during an execution calls back into
\* the context (require, compile, call, sort, foreach) and that nested call
\* fails, an execution that returns non-zero to the embedder leaves the error
\* type Runtime, never Syntax, Semantic or Generic; and a compile or exprtofn
\* that fails returns status 0 with the error message as a string and leaves
\* the error type Ok.
C28_NestedFailure ==
    /\ (ncall.fn = "exec" /\ NestedFailed /\ nstatus # 0) => ctx.errtype = "RUNTIME"
    /\ CompileFailed =>
            /\ nstatus = 0
            /\ nret = makestring(IF SourceText(ncall.argv[2].s) = "synerr"
                                 THEN Msg("parser", "synerr")
                                 ELSE Msg("compiler", "semerr"))
            /\ ctx.errtype = "OK"

\* a require of a file that does not parse has failed inside the execution
C28_Witness ==
    /\ ExecRan("require")
    /\ "parse_rej" \in Events(log)
    /\ nstatus # 0
    /\ ctx.errtype = "RUNTIME"
====
